---- MODULE Spec2Model ----
(***************************************************************************)
(* Verification model of the observability summarizer:                     *)
(*   - PoCObservabilityService (trace-korrel8r-poc/backend/                *)
(*     observability_service.py): the two correlation requests,            *)
(*   - LLMClient (trace-korrel8r-poc/backend/llm_client.py),               *)
(*   - chat_openshift (src/mcp_server/tools/observability_openshift_tools  *)
(*     .py): reply parsing and namespace injection.                        *)
(* Coroutines are cut at their awaits: one action runs from the completion *)
(* of one awaited HTTP call up to the next await or the return.            *)
(***************************************************************************)
EXTENDS Integers, Sequences, FiniteSets, TLC

\* ------------------------------------------------------------------ bounds
MaxEdges == 3
MaxProbes == 2
MaxEdgeCount == 6
MaxNoise == 2
MaxQueryLen == 4
MaxApply == 2

\* ================================================================= state
\* PoCObservabilityService: one correlation request
VARIABLES
    op,            \* the public coroutine this request runs: none, m2t, t2m
    pc,            \* where it is suspended: idle, graph, primary, fetch, done
    arg,           \* metric_query (m2t) or trace_id (t2m)
    time_range,    \* the time_range argument of correlate_metric_to_traces
    graph_request, \* the payload posted to the graph backend
    correlations,  \* local `correlations`
    primary,       \* local `metric_data` (m2t) / `trace_data` (t2m)
    evidence,      \* local `traces` (m2t) / `metrics` (t2m)
    inflight,      \* the HTTP exchanges awaited and not yet completed
    calls,         \* HTTP exchanges started, per backend
    log,           \* history: every completed exchange and how it ended
    peak,          \* history: most per-edge fetches ever in flight together
    result         \* the returned dict, NoneV until the coroutine returns

corrVars == <<op, pc, arg, time_range, graph_request, correlations, primary,
              evidence, inflight, calls, log, peak, result>>

\* LLMClient: one request
VARIABLES
    l_op,            \* the coroutine running: none, analyze_correlations,
                     \* generate_incident_insights
    l_pc,            \* idle, llm (awaiting _query_llm), done
    l_correlations,  \* argument `correlations`, each probe result held as the
                     \* number of edges of its correlations["results"]
    l_description,   \* argument incident_description / description
    l_calls,         \* HTTP exchanges started with the LLM endpoint
    l_reply,         \* history: how the exchange ended
    l_analysis,      \* local `analysis`, what _query_llm returned
    l_result         \* the returned dict, NoneV until the coroutine returns

llmVars == <<l_op, l_pc, l_correlations, l_description, l_calls, l_reply,
             l_analysis, l_result>>

\* chat_openshift and analyze_openshift
VARIABLES
    c_pc,            \* idle, fetch (inside fetch_openshift_metrics), llm
                     \* (inside summarize_with_llm), done
    c_category,      \* argument `metric_category`
    c_scope,         \* argument `scope`
    c_namespace,     \* argument `namespace`, "" for None
    c_time,          \* the time arguments
    c_window,        \* (start_ts_resolved, end_ts_resolved), NoneV before
    c_metrics_to_fetch, \* local `metrics_to_fetch`, label/query pairs in order
    c_metric_dfs,    \* local `metric_dfs`, label/frame pairs in order
    c_fetch_log,     \* history: the calls of fetch_openshift_metrics
    c_llm_calls,     \* calls of summarize_with_llm
    c_llm_response,  \* local `llm_response`
    c_response,      \* what chat_openshift returned, NoneV until it returns
    a_pc,            \* analyze_openshift: idle, core (inside
                     \* analyze_openshift_metrics), done
    a_args,          \* its arguments
    a_core_calls,    \* calls of analyze_openshift_metrics
    a_response       \* what analyze_openshift returned, NoneV until then

chatVars == <<c_pc, c_category, c_scope, c_namespace, c_time, c_window,
              c_metrics_to_fetch, c_metric_dfs, c_fetch_log, c_llm_calls,
              c_llm_response, c_response,
              a_pc, a_args, a_core_calls, a_response>>

\* The namespace filter of chat_openshift applied to a query, again
\* and again.
VARIABLES
    i_q0,            \* the query before the filter was ever applied
    i_q,             \* the query now
    i_ns,            \* the namespace
    i_n              \* how many times the filter was applied

injVars == <<i_q0, i_q, i_ns, i_n>>

\* PoCObservabilityService.analyze_incident: one request
VARIABLES
    n_pc,            \* idle, probe (awaiting correlate_metric_to_traces), done
    n_description,   \* argument `description`, its words and blanks in order
    n_time_range,    \* argument `time_range`
    n_keywords,      \* local `keywords`
    n_k,             \* the iteration of `for keyword in keywords` in progress
    n_correlations,  \* local `correlations`
    n_probes,        \* history: the metric_query of every correlation started
    n_result         \* the returned dict, NoneV until the coroutine returns

incVars == <<n_pc, n_description, n_time_range, n_keywords, n_k,
             n_correlations, n_probes, n_result>>

\* Two correlate_metric_to_traces requests on one PoCObservabilityService
VARIABLES
    s_self,          \* the service object's attributes, set by __init__
    t_frame,         \* request -> the locals of its coroutine frame
    t_traces,        \* cell -> a `traces` list; cell 0 is on the service object
    t_seen,          \* history: request -> the responses its awaits yielded
    t_peak           \* history: the most requests that were running at once

concVars == <<s_self, t_frame, t_traces, t_seen, t_peak>>

vars == <<corrVars, llmVars, chatVars, injVars, incVars, concVars>>

\* ------------------------------------------------------------ JSON values
\* Every Python value a gateway returns is a record with a "json" field:
\* None, the empty object {} (falsy), or a non-empty object (truthy).
NoneV == [json |-> "None"]
EmptyJson == [json |-> "empty"]
Truthy(v) == v.json \notin {"None", "empty"}
\* Mutant: the test is `if correlations == {}:`, which lets None through.
no_correlations_only_empty(c) == c.json = "empty"
\* `if not correlations:`
no_correlations(c) == ~Truthy(c)

Targets == {"a", "b"}
Absent == "absent"
Rules == {"r1"}
\* One edge of the graph response: its rule and the goal-side key the caller
\* reads (trace_id / metric_name), Absent when the key is missing or empty.
Edge == [rule : Rules, target : Targets \cup {Absent}]
EdgeLists == UNION {[1..n -> Edge] : n \in 0..MaxEdges}

\* The 200 bodies of the graph backend: {}, an object without "results",
\* and an object with a "results" array.
GraphBodies ==
    {EmptyJson, [json |-> "obj", hasResults |-> FALSE, results |-> <<>>]}
    \cup {[json |-> "obj", hasResults |-> TRUE, results |-> es] : es \in EdgeLists}

\* dict.get("results", [])
GetResults(c) == IF c.json = "obj" /\ c.hasResults THEN c.results ELSE <<>>

\* What an HTTP exchange can end in: a raised transport error, a raised
\* timeout, a non-200 status, or a 200 carrying a JSON body.
FailKinds == {"exc", "timeout", "status"}
Failures == {[kind |-> k, body |-> NoneV] : k \in FailKinds}
Ok(b) == [kind |-> "ok", body |-> b]

\* The 200 bodies of the metrics / trace backend asked for x.
DataOf(x) == [json |-> "obj", of |-> x]
FetchResponses(x) == Failures \cup {Ok(EmptyJson), Ok(DataOf(x))}
GraphResponses == Failures \cup {Ok(b) : b \in GraphBodies}

\* ----------------------------------------------------------- the gateways
\* _query_korrel8r: the request it posts.  The start class is the literal
\* "metric:prometheus" for either direction.
korrel8r_payload(start_signal, goal_type) ==
    [goals |-> <<goal_type>>, class |-> "metric:prometheus",
     queries |-> <<start_signal>>, limit |-> 100, timeout |-> "30s"]

\* An exception leaving a coroutine, as the value its caller's await yields.
Raised == [json |-> "raise"]

\* _query_korrel8r / _query_prometheus / _get_tempo_trace: what each returns
\* for the outcome of its single HTTP exchange.  Each wraps the exchange in
\* try/except Exception and returns None from the handler, and returns None
\* for a status other than 200.
query_korrel8r(resp) ==
    IF resp.kind \in {"exc", "timeout"} THEN NoneV
    ELSE IF resp.kind = "ok" THEN resp.body ELSE NoneV
query_prometheus(resp) ==
    IF resp.kind \in {"exc", "timeout"} THEN NoneV
    ELSE IF resp.kind = "ok" THEN resp.body ELSE NoneV
\* Mutant: _get_tempo_trace without its try/except: a transport error or a
\* timeout leaves it as an exception.
get_tempo_trace_uncaught(resp) ==
    IF resp.kind \in {"exc", "timeout"} THEN Raised
    ELSE IF resp.kind = "ok" THEN resp.body ELSE NoneV
get_tempo_trace(resp) ==
    IF resp.kind \in {"exc", "timeout"} THEN NoneV
    ELSE IF resp.kind = "ok" THEN resp.body ELSE NoneV

\* timedelta(hours=1 if time_range == "1h" else 24)
prometheus_hours(tr) == IF tr = "1h" THEN 1 ELSE 24

\* ------------------------------- the correlation service: one request
Metrics == {"cpu_usage_percent"}
TraceIds == {"t0"}
TimeRanges == {"1h", "24h", "7d"}
NoCalls == [korrel8r |-> 0, prometheus |-> 0, tempo |-> 0]

CorrInit ==
    /\ op = "none" /\ pc = "idle" /\ arg = "" /\ time_range = ""
    /\ graph_request = NoneV /\ correlations = NoneV /\ primary = NoneV
    /\ evidence = <<>> /\ inflight = {} /\ calls = NoCalls
    /\ log = <<>> /\ peak = 0 /\ result = NoneV

\* One HTTP exchange in flight.  edge is the index of the graph edge it
\* fetches for, 0 for the graph call and for the request's own signal.
Call(backend, edge, what, hours) ==
    [backend |-> backend, edge |-> edge, what |-> what, hours |-> hours]
EdgeFetches(S) == {c \in S : c.edge > 0}
Logged(c, resp) ==
    [backend |-> c.backend, edge |-> c.edge, kind |-> resp.kind,
     data |-> Truthy(resp.body)]
Max(a, b) == IF a >= b THEN a ELSE b

\* The for loop's next iteration that awaits: the first edge at or after i
\* whose goal-side key is present (`if trace_id:` / `if metric_name:`).
\* Variant: the index is not advanced past the edge just fetched, which is
\* fetched again.
RECURSIVE NextTarget_refetch(_, _)
NextTarget_refetch(es, i) ==
    IF i > 1 /\ i - 1 <= Len(es) /\ es[i - 1].target # Absent THEN i - 1
    ELSE IF i > Len(es) THEN i
    ELSE IF es[i].target # Absent THEN i
    ELSE NextTarget_refetch(es, i + 1)
RECURSIVE NextTarget(_, _)
NextTarget(es, i) ==
    IF i > Len(es) THEN i
    ELSE IF es[i].target # Absent THEN i
    ELSE NextTarget(es, i + 1)

\* datetime.now().isoformat()
analysis_timestamp == "now.isoformat"

\* `except Exception as e: return {"error": f"Correlation failed: {str(e)}"}`
\* of either correlation coroutine: the exception ends the request.
correlation_failed(done) ==
    /\ result' = [error |-> "Correlation failed"]
    /\ inflight' = done
    /\ pc' = "done"
    /\ UNCHANGED <<calls, peak, evidence>>

\* --------------------------------------------- correlate_metric_to_traces
\* Mutant: traces.insert(0, trace_data).
m2t_insert_front(ev, i, trace_data) == <<[edge |-> i, data |-> trace_data]>> \o ev
\* traces.append(trace_data); edge records which iteration appended it.
m2t_append(ev, i, trace_data) == Append(ev, [edge |-> i, data |-> trace_data])

m2t_result(ev) ==
    [metric_query |-> arg, metric_data |-> primary', correlations |-> correlations,
     related_traces |-> ev, analysis_timestamp |-> analysis_timestamp]

\* Run the loop from iteration i with `traces` = ev: up to the next await of
\* _get_tempo_trace, or to the return.
m2t_loop(i, ev, done) ==
    LET es == GetResults(correlations)
        j == NextTarget(es, i)
    IN  /\ evidence' = ev
        /\ IF j > Len(es)
           THEN /\ inflight' = done
                /\ calls' = calls
                /\ peak' = peak
                /\ result' = m2t_result(ev)
                /\ pc' = "done"
           ELSE /\ inflight' = done \cup {Call("tempo", j, es[j].target, 0)}
                /\ calls' = [calls EXCEPT !.tempo = @ + 1]
                /\ peak' = Max(peak, Cardinality(EdgeFetches(inflight')))
                /\ result' = result
                /\ pc' = "fetch"

\* The coroutine from its entry, with fresh locals, to its await of
\* _query_korrel8r.
m2t_begin(metric_query, tr) ==
    /\ op' = "m2t" /\ arg' = metric_query /\ time_range' = tr
    /\ graph_request' = korrel8r_payload(<<"metric:", metric_query>>, "trace")
    /\ inflight' = {Call("korrel8r", 0, metric_query, 0)}
    /\ calls' = [NoCalls EXCEPT !.korrel8r = 1]
    /\ pc' = "graph"
    /\ correlations' = NoneV /\ primary' = NoneV /\ evidence' = <<>>
    /\ log' = <<>> /\ peak' = 0 /\ result' = NoneV

correlate_metric_to_traces(metric_query, tr) ==
    /\ pc = "idle"
    /\ m2t_begin(metric_query, tr)
    /\ UNCHANGED <<llmVars, chatVars, injVars, incVars, concVars>>

m2t_graph_returns(resp) ==
    /\ op = "m2t" /\ pc = "graph"
    /\ \E c \in inflight :
        /\ log' = Append(log, Logged(c, resp))
        /\ correlations' = query_korrel8r(resp)
        /\ IF correlations' = Raised
           THEN correlation_failed(inflight \ {c})
           ELSE IF no_correlations(correlations')
           THEN /\ result' = [error |-> "No correlations found"]
                /\ inflight' = inflight \ {c}
                /\ pc' = "done"
                /\ UNCHANGED <<calls, peak, evidence>>
           ELSE /\ inflight' = (inflight \ {c})
                        \cup {Call("prometheus", 0, arg, prometheus_hours(time_range))}
                /\ calls' = [calls EXCEPT !.prometheus = @ + 1]
                /\ pc' = "primary"
                /\ UNCHANGED <<result, peak, evidence>>
    /\ UNCHANGED <<op, arg, time_range, graph_request, primary>>
    /\ UNCHANGED <<llmVars, chatVars, injVars, incVars, concVars>>

m2t_metric_returns(resp) ==
    /\ op = "m2t" /\ pc = "primary"
    /\ \E c \in inflight :
        /\ resp \in FetchResponses(c.what)
        /\ log' = Append(log, Logged(c, resp))
        /\ primary' = query_prometheus(resp)
        /\ IF primary' = Raised
           THEN correlation_failed(inflight \ {c})
           ELSE m2t_loop(1, evidence, inflight \ {c})
    /\ UNCHANGED <<op, arg, time_range, graph_request, correlations>>
    /\ UNCHANGED <<llmVars, chatVars, injVars, incVars, concVars>>

m2t_trace_returns(resp) ==
    /\ op = "m2t" /\ pc = "fetch"
    /\ \E c \in inflight :
        LET trace_data == get_tempo_trace(resp) IN
        /\ resp \in FetchResponses(c.what)
        /\ log' = Append(log, Logged(c, resp))
        /\ primary' = primary
        /\ IF trace_data = Raised
           THEN correlation_failed(inflight \ {c})
           ELSE m2t_loop(c.edge + 1,
                         IF Truthy(trace_data)
                         THEN m2t_append(evidence, c.edge, trace_data)
                         ELSE evidence,
                         inflight \ {c})
    /\ UNCHANGED <<op, arg, time_range, graph_request, correlations>>
    /\ UNCHANGED <<llmVars, chatVars, injVars, incVars, concVars>>

\* --------------------------------------------- correlate_trace_to_metrics
\* metrics.append({...}); edge records which iteration appended it.
t2m_append(ev, i, e, metric_data) ==
    Append(ev, [edge |-> i, metric_name |-> e.target, data |-> metric_data,
                correlation_rule |-> e.rule])

t2m_result(ev) ==
    [trace_id |-> arg, trace_data |-> primary', correlations |-> correlations,
     related_metrics |-> ev, analysis_timestamp |-> analysis_timestamp]

\* Run the loop from iteration i with `metrics` = ev: up to the next await of
\* _query_prometheus(session, metric_name, "1h"), or to the return.
t2m_loop(i, ev, done) ==
    LET es == GetResults(correlations)
        j == NextTarget(es, i)
    IN  /\ evidence' = ev
        /\ IF j > Len(es)
           THEN /\ inflight' = done
                /\ calls' = calls
                /\ peak' = peak
                /\ result' = t2m_result(ev)
                /\ pc' = "done"
           ELSE /\ inflight' = done
                        \cup {Call("prometheus", j, es[j].target, prometheus_hours("1h"))}
                /\ calls' = [calls EXCEPT !.prometheus = @ + 1]
                /\ peak' = Max(peak, Cardinality(EdgeFetches(inflight')))
                /\ result' = result
                /\ pc' = "fetch"

correlate_trace_to_metrics(trace_id) ==
    /\ pc = "idle"
    /\ op' = "t2m" /\ arg' = trace_id /\ time_range' = time_range
    /\ graph_request' =
           korrel8r_payload(<<"trace:{.trace_id=\"", trace_id, "\"}">>, "metric")
    /\ inflight' = {Call("korrel8r", 0, trace_id, 0)}
    /\ calls' = [calls EXCEPT !.korrel8r = @ + 1]
    /\ pc' = "graph"
    /\ UNCHANGED <<correlations, primary, evidence, log, peak, result>>
    /\ UNCHANGED <<llmVars, chatVars, injVars, incVars, concVars>>

t2m_graph_returns(resp) ==
    /\ op = "t2m" /\ pc = "graph"
    /\ \E c \in inflight :
        /\ log' = Append(log, Logged(c, resp))
        /\ correlations' = query_korrel8r(resp)
        /\ IF correlations' = Raised
           THEN correlation_failed(inflight \ {c})
           ELSE IF no_correlations(correlations')
           THEN /\ result' = [error |-> "No correlations found"]
                /\ inflight' = inflight \ {c}
                /\ pc' = "done"
                /\ UNCHANGED <<calls, peak, evidence>>
           ELSE /\ inflight' = (inflight \ {c}) \cup {Call("tempo", 0, arg, 0)}
                /\ calls' = [calls EXCEPT !.tempo = @ + 1]
                /\ pc' = "primary"
                /\ UNCHANGED <<result, peak, evidence>>
    /\ UNCHANGED <<op, arg, time_range, graph_request, primary>>
    /\ UNCHANGED <<llmVars, chatVars, injVars, incVars, concVars>>

t2m_trace_returns(resp) ==
    /\ op = "t2m" /\ pc = "primary"
    /\ \E c \in inflight :
        /\ resp \in FetchResponses(c.what)
        /\ log' = Append(log, Logged(c, resp))
        /\ primary' = get_tempo_trace(resp)
        /\ IF primary' = Raised
           THEN correlation_failed(inflight \ {c})
           ELSE t2m_loop(1, evidence, inflight \ {c})
    /\ UNCHANGED <<op, arg, time_range, graph_request, correlations>>
    /\ UNCHANGED <<llmVars, chatVars, injVars, incVars, concVars>>

t2m_metric_returns(resp) ==
    /\ op = "t2m" /\ pc = "fetch"
    /\ \E c \in inflight :
        LET metric_data == query_prometheus(resp)
            e == GetResults(correlations)[c.edge]
        IN
        /\ resp \in FetchResponses(c.what)
        /\ log' = Append(log, Logged(c, resp))
        /\ primary' = primary
        /\ IF metric_data = Raised
           THEN correlation_failed(inflight \ {c})
           ELSE t2m_loop(c.edge + 1,
                         IF Truthy(metric_data)
                         THEN t2m_append(evidence, c.edge, e, metric_data)
                         ELSE evidence,
                         inflight \ {c})
    /\ UNCHANGED <<op, arg, time_range, graph_request, correlations>>
    /\ UNCHANGED <<llmVars, chatVars, injVars, incVars, concVars>>

\* ------------------------------------------------ the correlation service
CorrNext ==
    \/ \E q \in Metrics, tr \in TimeRanges : correlate_metric_to_traces(q, tr)
    \/ \E r \in GraphResponses : m2t_graph_returns(r)
    \/ \E q \in Metrics : \E r \in FetchResponses(q) : m2t_metric_returns(r)
    \/ \E t \in Targets : \E r \in FetchResponses(t) : m2t_trace_returns(r)
    \/ \E t \in TraceIds : correlate_trace_to_metrics(t)
    \/ \E r \in GraphResponses : t2m_graph_returns(r)
    \/ \E t \in TraceIds : \E r \in FetchResponses(t) : t2m_trace_returns(r)
    \/ \E t \in Targets : \E r \in FetchResponses(t) : t2m_metric_returns(r)

\* ======================================================= analyze_incident
\* A description is the sequence of its words and blanks.
Blank == " "
IncidentDescriptions ==
    { <<"High", Blank, "cpu", Blank, "and", Blank, "memory", Blank, "usage">>,
      <<"CPU", Blank, "latency,", Blank, Blank, "memory", Blank, "cpu">>,
      <<"latency", Blank, "cpu", Blank, "memory">>,
      <<"disk", Blank, "is", Blank, "slow">>,
      <<>> }

\* str.lower() of one word
lower(w) ==
    CASE w = "High" -> "high"
      [] w = "CPU" -> "cpu"
      [] OTHER -> w
\* description.lower().split(): the words, lower-cased, blanks dropped
lower_split(description) ==
    LET words == SelectSeq(description, LAMBDA w : w # Blank)
    IN  [i \in 1..Len(words) |-> lower(words[i])]
\* `term in word`, for one lower-cased word
HasSub(word, term) == word = term \/ (word = "latency," /\ term = "latency")
\* `term in description.lower()`
InDescription(description, term) ==
    \E i \in 1..Len(description) : HasSub(lower(description[i]), term)

relevant_terms ==
    {"cpu", "memory", "latency", "error", "timeout",
     "slow", "high", "spike", "service", "database"}

\* Variant: the description is split without being lower-cased.
extract_keywords_case_sensitive(description) ==
    LET words == SelectSeq(description, LAMBDA w : w # Blank)
        keywords == SelectSeq(words, LAMBDA w : w \in relevant_terms)
    IN  {keywords[i] : i \in 1..Len(keywords)}
\* _extract_keywords: set(keywords); the list returned holds these in some
\* order.
extract_keywords(description) ==
    LET words == lower_split(description)
        keywords == SelectSeq(words, LAMBDA w : w \in relevant_terms)
    IN  {keywords[i] : i \in 1..Len(keywords)}

\* list(set(keywords)): every order the set can be listed in
Orders(S) ==
    {f \in [1..Cardinality(S) -> S] : \A i, j \in 1..Cardinality(S) : f[i] = f[j] => i = j}

\* The if/elif chain of the loop: the metric_query of a keyword, "" for
\* `continue`.
\* Variant: the else branch probes the cpu metric instead of continuing.
probe_metric_default_cpu(keyword) ==
    IF HasSub(lower(keyword), "memory") THEN "memory_usage_bytes"
    ELSE IF HasSub(lower(keyword), "latency") THEN "http_request_duration_seconds"
    ELSE "cpu_usage_percent"
probe_metric(keyword) ==
    IF HasSub(lower(keyword), "cpu") THEN "cpu_usage_percent"
    ELSE IF HasSub(lower(keyword), "memory") THEN "memory_usage_bytes"
    ELSE IF HasSub(lower(keyword), "latency") THEN "http_request_duration_seconds"
    ELSE ""
ProbeMetrics == {"cpu_usage_percent", "memory_usage_bytes", "http_request_duration_seconds"}

RECURSIVE NextProbe(_, _)
NextProbe(keywords, k) ==
    IF k > Len(keywords) THEN k
    ELSE IF probe_metric(keywords[k]) # "" THEN k
    ELSE NextProbe(keywords, k + 1)

\* sum(len(c.get("correlations", {}).get("results", [])) for c in correlations)
RECURSIVE total_edges(_)
total_edges(corrs) ==
    IF corrs = <<>> THEN 0
    ELSE Len(GetResults(Head(corrs).correlations)) + total_edges(Tail(corrs))

\* Variant: the thresholds are tested with >=.
severity_of_inclusive(total) ==
    IF total >= 10 THEN "high" ELSE IF total >= 5 THEN "medium" ELSE "low"
\* `# Determine severity`
severity_of(total) ==
    IF total > 10 THEN "high" ELSE IF total > 5 THEN "medium" ELSE "low"

\* _generate_insights
generate_insights(description, corrs) ==
    LET total == total_edges(corrs)
        cpu == InDescription(description, "cpu")
        memory == InDescription(description, "memory")
        slow == InDescription(description, "latency") \/ InDescription(description, "slow")
    IN  [summary |-> <<"Analyzed incident with", Len(corrs), "metric patterns and",
                       total, "total correlations.">>,
         potential_causes |->
            (IF cpu THEN <<"High CPU utilization detected">> ELSE <<>>)
            \o (IF memory THEN <<"Memory pressure identified">> ELSE <<>>)
            \o (IF slow THEN <<"Performance degradation observed">> ELSE <<>>),
         recommendations |->
            (IF cpu THEN <<"Consider scaling horizontally or optimizing CPU-intensive operations">> ELSE <<>>)
            \o (IF memory THEN <<"Check for memory leaks or increase memory allocation">> ELSE <<>>)
            \o (IF slow THEN <<"Investigate bottlenecks in critical path">> ELSE <<>>),
         severity |-> severity_of(total)]

IncInit ==
    /\ n_pc = "idle" /\ n_description = <<>> /\ n_time_range = ""
    /\ n_keywords = <<>> /\ n_k = 0 /\ n_correlations = <<>>
    /\ n_probes = <<>> /\ n_result = NoneV

\* Run `for keyword in keywords` from iteration k with `correlations` = corrs:
\* up to the next await of correlate_metric_to_traces, or to the return.
incident_loop(description, tr, keywords, k, corrs) ==
    LET j == NextProbe(keywords, k) IN
    /\ n_k' = j
    /\ n_correlations' = corrs
    /\ IF j > Len(keywords)
       THEN /\ n_result' = [incident_description |-> description,
                            extracted_keywords |-> keywords,
                            correlations |-> corrs,
                            ai_insights |-> generate_insights(description, corrs),
                            analysis_timestamp |-> analysis_timestamp]
            /\ n_pc' = "done"
            /\ UNCHANGED <<n_probes, corrVars>>
       ELSE /\ n_probes' = Append(n_probes, probe_metric(keywords[j]))
            /\ m2t_begin(probe_metric(keywords[j]), tr)
            /\ n_pc' = "probe"
            /\ UNCHANGED n_result

analyze_incident(description, tr, keywords) ==
    /\ n_pc = "idle" /\ pc = "idle"
    /\ keywords \in Orders(extract_keywords(description))
    /\ n_description' = description
    /\ n_time_range' = tr
    /\ n_keywords' = keywords
    /\ incident_loop(description, tr, keywords, 1, <<>>)
    /\ UNCHANGED <<llmVars, chatVars, injVars, concVars>>

\* correlate_metric_to_traces returned correlation_result.
incident_probe_returns ==
    /\ n_pc = "probe" /\ pc = "done"
    /\ LET correlation_result == result IN
       incident_loop(n_description, n_time_range, n_keywords, n_k + 1,
                     IF "error" \in DOMAIN correlation_result
                     THEN n_correlations
                     ELSE Append(n_correlations, correlation_result))
    /\ UNCHANGED <<n_description, n_time_range, n_keywords>>
    /\ UNCHANGED <<llmVars, chatVars, injVars, concVars>>

\* What the backends answer during an incident analysis.
AbsentEdges(n) == [i \in 1..n |-> [rule |-> "r1", target |-> Absent]]
IncidentEdgeLists ==
    {AbsentEdges(n) : n \in {0, 3, MaxEdgeCount}}
    \cup {<<[rule |-> "r1", target |-> "a"], [rule |-> "r1", target |-> Absent]>>}
IncidentGraphResponses ==
    {[kind |-> "timeout", body |-> NoneV]}
    \cup {Ok([json |-> "obj", hasResults |-> TRUE, results |-> es]) : es \in IncidentEdgeLists}
IncidentFetchResponses(x) == {[kind |-> "status", body |-> NoneV], Ok(DataOf(x))}

IncidentNext ==
    \/ \E d \in IncidentDescriptions, tr \in {"1h", "7d"} :
          \E keywords \in Orders(extract_keywords(d)) : analyze_incident(d, tr, keywords)
    \/ \E r \in IncidentGraphResponses : m2t_graph_returns(r)
    \/ \E q \in ProbeMetrics : \E r \in IncidentFetchResponses(q) : m2t_metric_returns(r)
    \/ \E t \in Targets : \E r \in IncidentFetchResponses(t) : m2t_trace_returns(r)
    \/ incident_probe_returns

\* ============================================================ reply text
\* An LLM reply is a sequence of tokens: "sp" is white space, "w" a word,
\* "{" "}" "," the punctuation, and a member token one `"key": value` pair
\* of a JSON object (its key and value are Key and Val below).
ChatMembers == {"P:up", "P:sel", "P:pad", "P:", "S:ok", "S:"}
IncidentMembers == {"rc:disk", "sev:high", "sev:urgent", "act:restart"}
Members == ChatMembers \cup IncidentMembers

Key(m) ==
    CASE m \in {"P:up", "P:sel", "P:pad", "P:"} -> "promql"
      [] m \in {"S:ok", "S:"} -> "summary"
      [] m = "rc:disk" -> "root_cause"
      [] m \in {"sev:high", "sev:urgent"} -> "severity"
      [] m = "act:restart" -> "immediate_actions"

\* promql and summary values are strings, held as token sequences.
Val(m) ==
    CASE m = "P:up" -> <<"up">>
      [] m = "P:sel" -> <<"up", "{", "job=\"x\"", "}">>
      [] m = "P:pad" -> <<"sp", "up", "sp">>
      [] m = "P:" -> <<>>
      [] m = "S:ok" -> <<"ok">>
      [] m = "S:" -> <<>>
      [] m = "rc:disk" -> "disk"
      [] m = "sev:high" -> "high"
      [] m = "sev:urgent" -> "urgent"
      [] m = "act:restart" -> <<"restart">>

\* str.strip(): white space off both ends.
RECURSIVE lstrip(_)
lstrip(t) == IF t # <<>> /\ Head(t) = "sp" THEN lstrip(Tail(t)) ELSE t
RECURSIVE rstrip(_)
rstrip(t) ==
    IF t # <<>> /\ t[Len(t)] = "sp" THEN rstrip(SubSeq(t, 1, Len(t) - 1)) ELSE t
strip(t) == rstrip(lstrip(t))

\* sub in s
Contains(s, sub) ==
    \E i \in 0..(Len(s) - Len(sub)) : SubSeq(s, i + 1, i + Len(sub)) = sub

\* json.loads on a text: [ok |-> FALSE] stands for JSONDecodeError, else the
\* decoded object as a function from its keys.  White space between JSON
\* tokens is insignificant; the text must be one object and nothing else;
\* of two members with one key the later wins.
json_loads(text) ==
    LET t == SelectSeq(text, LAMBDA x : x # "sp")
        n == Len(t)
        inner == IF n >= 2 THEN SubSeq(t, 2, n - 1) ELSE <<>>
        m == Len(inner)
        wellformed ==
            /\ n >= 2 /\ t[1] = "{" /\ t[n] = "}"
            /\ \/ m = 0
               \/ /\ m % 2 = 1
                  /\ \A i \in 1..m :
                        IF i % 2 = 1 THEN inner[i] \in Members ELSE inner[i] = ","
        keys == {Key(inner[i]) : i \in {j \in 1..m : j % 2 = 1}}
        last(k) == CHOOSE i \in 1..m :
                      /\ i % 2 = 1 /\ Key(inner[i]) = k
                      /\ \A j \in 1..m : (j % 2 = 1 /\ Key(inner[j]) = k) => j <= i
    IN  IF wellformed
        THEN [ok |-> TRUE, obj |-> [k \in keys |-> Val(inner[last(k)])]]
        ELSE [ok |-> FALSE, obj |-> <<>>]

\* dict.get(key, default)
dict_get(d, k, default) == IF k \in DOMAIN d THEN d[k] ELSE default

\* ============================================================= LLMClient
LLMInit ==
    /\ l_op = "none" /\ l_pc = "idle" /\ l_correlations = <<>>
    /\ l_description = "" /\ l_calls = 0 /\ l_reply = NoneV
    /\ l_analysis = NoneV /\ l_result = NoneV

Descriptions == {"High cpu and memory usage", "disk is full"}
ProbeResults == UNION {[1..n -> 0..MaxEdgeCount] : n \in 0..MaxProbes}

\* The reply texts tried on the incident prompts: an object, a near-object or
\* nothing, between a lead and a trail.
IncidentCores ==
    { <<>>, <<"w">>, <<"{", "}">>,
      <<"{", "rc:disk", ",", "sev:high", "}">>,
      <<"{", "rc:disk", ",", "sev:urgent", "}">>,
      <<"{", "rc:disk", "}">>,
      <<"{", "act:restart", "}">>,
      <<"{", "rc:disk">>,
      <<"{", "w", "}">> }
IncidentTexts ==
    {lead \o core \o trail :
        lead \in {<<>>, <<"sp">>, <<"w">>},
        core \in IncidentCores,
        trail \in {<<>>, <<"sp">>, <<"w">>, <<"}">>}}

\* The 200 bodies of the completions endpoint: no "choices" key, an empty
\* "choices" list, or choices[0] carrying a text.
Envelope(choices, text) == [json |-> "obj", choices |-> choices, text |-> text]
LLMBodies ==
    {Envelope("missing", <<>>), Envelope("empty", <<>>)}
    \cup {Envelope("text", t) : t \in IncidentTexts}
LLMResponses == Failures \cup {Ok(b) : b \in LLMBodies}

\* str(llm_result): the repr of the whole response dict.
str_of(llm_result) ==
    CASE llm_result.choices = "missing" -> <<"{}">>
      [] llm_result.choices = "empty" -> <<"{'choices': []}">>
      [] OTHER -> <<"{'choices': [{'text': '">> \o llm_result.text \o <<"'}]}">>

\* _parse_llm_response
parse_llm_response(llm_result) ==
    LET failed == [analysis |-> str_of(llm_result), structured |-> FALSE,
                   error |-> "Failed to parse LLM response"]
        \* llm_result.get("choices", [{}])[0].get("text", "")
        text == IF llm_result.choices = "text" THEN llm_result.text ELSE <<>>
        stripped == strip(text)
    IN  IF llm_result.choices = "empty" THEN failed      \* IndexError
        ELSE IF stripped # <<>> /\ Head(stripped) = "{"
        THEN IF json_loads(stripped).ok THEN json_loads(stripped).obj
             ELSE failed                                 \* JSONDecodeError
        ELSE [analysis |-> text, structured |-> FALSE]

\* _query_llm: a 200 is parsed; every other outcome, raised or not, leaves
\* as Exception("LLM query failed: ...").
query_llm(resp) ==
    IF resp.kind = "ok" THEN parse_llm_response(resp.body) ELSE Raised

RECURSIVE SumSeq(_)
SumSeq(q) == IF q = <<>> THEN 0 ELSE Head(q) + SumSeq(Tail(q))

\* _build_correlation_context
build_correlation_context(corrs, incident_description) ==
    [incident_description |-> incident_description,
     total_correlations |-> SumSeq(corrs),
     time_range |-> "1h"]

\* _extract_recommendations
extract_recommendations(analysis) ==
    dict_get(analysis, "immediate_actions",
             dict_get(analysis, "recommendations", <<>>))

\* _fallback_analysis
fallback_analysis(corrs) ==
    LET total_correlations == SumSeq(corrs) IN
    [root_cause |-> <<"Multiple correlation patterns detected", total_correlations>>,
     impact |-> "Potential service impact based on correlation count",
     recommendations |-> <<"Investigate high-correlation services first",
                           "Check recent deployments or changes",
                           "Monitor key metrics for anomalies">>,
     severity |-> IF total_correlations > 10 THEN "high"
                  ELSE IF total_correlations > 5 THEN "medium" ELSE "low",
     note |-> "Fallback analysis - LLM unavailable"]

analyze_correlations(corrs, incident_description) ==
    /\ l_pc = "idle"
    /\ l_op' = "analyze_correlations"
    /\ l_correlations' = corrs
    /\ l_description' = incident_description
    /\ l_calls' = l_calls + 1
    /\ l_pc' = "llm"
    /\ UNCHANGED <<l_reply, l_analysis, l_result>>
    /\ UNCHANGED <<corrVars, chatVars, injVars, incVars, concVars>>

analyze_correlations_returns(resp) ==
    /\ l_op = "analyze_correlations" /\ l_pc = "llm"
    /\ l_reply' = resp
    /\ l_analysis' = query_llm(resp)
    /\ l_result' =
          IF l_analysis' = Raised
          THEN [error |-> "LLM analysis failed",
                fallback_analysis |-> fallback_analysis(l_correlations)]
          ELSE [llm_analysis |-> l_analysis',
                correlation_summary |->
                    build_correlation_context(l_correlations, l_description),
                recommendations |-> extract_recommendations(l_analysis')]
    /\ l_pc' = "done"
    /\ UNCHANGED <<l_op, l_correlations, l_description, l_calls>>
    /\ UNCHANGED <<corrVars, chatVars, injVars, incVars, concVars>>

generate_incident_insights(description) ==
    /\ l_pc = "idle"
    /\ l_op' = "generate_incident_insights"
    /\ l_description' = description
    /\ l_calls' = l_calls + 1
    /\ l_pc' = "llm"
    /\ UNCHANGED <<l_correlations, l_reply, l_analysis, l_result>>
    /\ UNCHANGED <<corrVars, chatVars, injVars, incVars, concVars>>

generate_incident_insights_returns(resp) ==
    /\ l_op = "generate_incident_insights" /\ l_pc = "llm"
    /\ l_reply' = resp
    /\ l_analysis' = query_llm(resp)
    /\ l_result' =
          IF l_analysis' = Raised
          THEN [error |-> "Incident analysis failed"]
          ELSE [root_cause_analysis |-> dict_get(l_analysis', "root_cause", "Unknown"),
                impact_assessment |-> dict_get(l_analysis', "impact", "Unknown"),
                recommendations |-> dict_get(l_analysis', "recommendations", <<>>),
                severity |-> dict_get(l_analysis', "severity", "medium"),
                llm_raw_response |-> l_analysis']
    /\ l_pc' = "done"
    /\ UNCHANGED <<l_op, l_correlations, l_description, l_calls>>
    /\ UNCHANGED <<corrVars, chatVars, injVars, incVars, concVars>>

LLMNext ==
    \/ \E c \in ProbeResults, d \in Descriptions : analyze_correlations(c, d)
    \/ \E r \in LLMResponses : analyze_correlations_returns(r)
    \/ \E d \in Descriptions : generate_incident_insights(d)
    \/ \E r \in LLMResponses : generate_incident_insights_returns(r)

\* ========================================================= chat_openshift
CLUSTER_WIDE == "cluster_wide"
NAMESPACE_SCOPED == "namespace_scoped"
Scopes == {CLUSTER_WIDE, NAMESPACE_SCOPED, "everything"}
Namespaces == {"", "ns1", "ns2"}

ChatInit ==
    /\ c_pc = "idle" /\ c_category = "" /\ c_scope = "" /\ c_namespace = ""
    /\ c_time = NoneV /\ c_window = NoneV
    /\ c_metrics_to_fetch = <<>> /\ c_metric_dfs = <<>> /\ c_fetch_log = <<>>
    /\ c_llm_calls = 0 /\ c_llm_response = <<>> /\ c_response = NoneV
    /\ a_pc = "idle" /\ a_args = NoneV /\ a_core_calls = 0
    /\ a_response = NoneV

\* The quoted namespace, as the f-string writes it: "{namespace}" in quotes.
Quote(ns) ==
    CASE ns = "ns1" -> "\"ns1\""
      [] ns = "ns2" -> "\"ns2\""
      [] OTHER -> "\"\""

\* Mutant: str.replace(old, new) without the count: every old becomes new.
RECURSIVE replace_all(_, _, _)
replace_all(q, old, new) ==
    IF q = <<>> THEN <<>>
    ELSE IF Head(q) = old THEN new \o replace_all(Tail(q), old, new)
    ELSE <<Head(q)>> \o replace_all(Tail(q), old, new)

\* str.replace(old, new, 1) for a one-token old: the first old becomes new.
RECURSIVE replace_first(_, _, _)
replace_first(q, old, new) ==
    IF q = <<>> THEN <<>>
    ELSE IF Head(q) = old THEN new \o Tail(q)
    ELSE <<Head(q)>> \o replace_first(Tail(q), old, new)

\* Mutant: the test looks for "namespace =" (with a space), which the
\* inserted label never contains.
has_namespace_label_spaced(promql) == Contains(promql, <<"namespace", "sp", "=">>)
\* "namespace=" in promql
has_namespace_label(promql) == Contains(promql, <<"namespace", "=">>)

\* `# Add namespace filter when needed`: the promql after the block.
inject_namespace(promql, namespace) ==
    IF promql # <<>> /\ namespace # "" /\ ~has_namespace_label(promql)
    THEN IF Contains(promql, <<"{">>)
         THEN replace_first(promql, "{",
                            <<"{", "namespace", "=", Quote(namespace), ", ">>)
         ELSE promql \o <<"{", "namespace", "=", Quote(namespace), "}">>
    ELSE promql

\* re.search(r"\{.*\}", llm_response, re.DOTALL): the span from the first
\* "{" to the last "}" after it; matched is FALSE when there is none.
regex_json_span(text) ==
    LET opens == {i \in 1..Len(text) : text[i] = "{"}
        closes == {i \in 1..Len(text) : text[i] = "}"}
        first == CHOOSE i \in opens : \A j \in opens : i <= j
        last == CHOOSE i \in closes : \A j \in closes : j <= i
    IN  IF opens # {} /\ closes # {} /\ first < last
        THEN [matched |-> TRUE, group |-> SubSeq(text, first, last)]
        ELSE [matched |-> FALSE, group |-> <<>>]

\* `# Try to extract JSON`: promql and summary after the try block.
\* (x or y) takes y when x is missing or empty.
extract_json(llm_response, namespace) ==
    LET json_match == regex_json_span(llm_response)
        decoded == json_loads(json_match.group)
        parsed == decoded.obj
        p == dict_get(parsed, "promql", <<>>)
        sm == dict_get(parsed, "summary", <<>>)
    IN  IF json_match.matched /\ decoded.ok
        THEN [promql |-> inject_namespace(strip(p), namespace),
              summary |-> strip(IF sm # <<>> THEN sm ELSE llm_response)]
        ELSE [promql |-> <<>>, summary |-> llm_response]

\* _resp(text): a message to the caller
resp_text(text, is_error) == [type |-> "text", text |-> text, is_error |-> is_error]
\* _resp(json.dumps(payload))
resp_payload(payload) == [type |-> "payload", payload |-> payload, is_error |-> FALSE]

\* ---- resolve_time_range (observability_vllm_tools, specified in 4.1)
Now == 1700000000
Token(t) == [form |-> "token", time_range |-> t, start_ts |-> 0, end_ts |-> 0]
Epoch(s, e) == [form |-> "epoch", time_range |-> "", start_ts |-> s, end_ts |-> e]
DurationTokens == {"1h", "24h", "7d"}
duration_seconds(t) ==
    CASE t = "1h" -> 3600
      [] t = "24h" -> 86400
      [] t = "7d" -> 604800
      [] OTHER -> 0
ChatTimes ==
    {Token(t) : t \in DurationTokens \cup {"soon"}}
    \cup {Epoch(1000, 2000), Epoch(2000, 1000)}

\* A relative token gives (now - duration, now); an epoch pair passes
\* through; InvalidTimeRange (ok is FALSE) when the token is not recognized
\* or start_ts > end_ts.
resolve_time_range(ti) ==
    LET w == IF ti.form = "token"
             THEN [start_ts |-> Now - duration_seconds(ti.time_range), end_ts |-> Now]
             ELSE [start_ts |-> ti.start_ts, end_ts |-> ti.end_ts]
        recognized == ti.form = "epoch" \/ ti.time_range \in DurationTokens
    IN  [ok |-> recognized /\ w.start_ts <= w.end_ts,
         start_ts |-> w.start_ts, end_ts |-> w.end_ts]

\* ---- the query catalogs (core.metrics, specified in 3 and 4.2)
Categories ==
    {"Fleet Overview", "Workloads & Pods", "Application Services", "No Such Category"}
Q(label, query) == [label |-> label, query |-> query]
\* get_openshift_metrics(): category -> query set, for the categories registered
\* cluster-wide.
get_openshift_metrics ==
    [cat \in {"Fleet Overview", "Workloads & Pods"} |->
        IF cat = "Fleet Overview"
        THEN <<Q("Total Nodes", "count(kube_node_info)")>>
        ELSE <<Q("Total Pods Running", "sum(kube_pod_status_phase{phase=\"Running\"})")>>]
\* get_namespace_specific_metrics(category): the namespace-specific query set
\* of the category, empty when it has none.
get_namespace_specific_metrics(cat) ==
    CASE cat = "Workloads & Pods" ->
            <<Q("Pods Running", "sum(kube_pod_status_phase{phase=\"Running\"}) by (namespace)"),
              Q("Pods Failed", "sum(kube_pod_status_phase{phase=\"Failed\"}) by (namespace)")>>
      [] cat = "Application Services" ->
            <<Q("Services", "count(kube_service_info) by (namespace)")>>
      [] OTHER -> <<>>

\* `# Determine metric set based on scope`: found is FALSE for
\* "Invalid metric category".
\* Variant: the namespace-specific entry is never consulted.
select_metrics_cluster_only(metric_category, scope, namespace) ==
    IF metric_category \notin DOMAIN get_openshift_metrics
    THEN [found |-> FALSE, metrics_to_fetch |-> <<>>]
    ELSE [found |-> TRUE, metrics_to_fetch |-> get_openshift_metrics[metric_category]]
select_metrics(metric_category, scope, namespace) ==
    LET openshift_metrics == get_openshift_metrics
        namespace_metrics == get_namespace_specific_metrics(metric_category)
    IN  IF scope = NAMESPACE_SCOPED /\ namespace # "" /\ namespace_metrics # <<>>
        THEN [found |-> TRUE, metrics_to_fetch |-> namespace_metrics]
        ELSE IF metric_category \notin DOMAIN openshift_metrics
        THEN [found |-> FALSE, metrics_to_fetch |-> <<>>]
        ELSE [found |-> TRUE, metrics_to_fetch |-> openshift_metrics[metric_category]]

\* The validation of both tools: the message returned, "" when the inputs pass.
\* Variant: the namespace is not required.
validate_scope_only(scope, namespace) ==
    IF scope \notin {CLUSTER_WIDE, NAMESPACE_SCOPED}
    THEN "Invalid scope. Use 'cluster_wide' or 'namespace_scoped'."
    ELSE ""
validate(scope, namespace) ==
    IF scope \notin {CLUSTER_WIDE, NAMESPACE_SCOPED}
    THEN "Invalid scope. Use 'cluster_wide' or 'namespace_scoped'."
    ELSE IF scope = NAMESPACE_SCOPED /\ namespace = ""
    THEN "Namespace is required when scope is 'namespace_scoped'."
    ELSE ""

\* One call of fetch_openshift_metrics(query, start, end, namespace_for_query).
FetchCall(q, w, scope, namespace) ==
    [label |-> q.label, query |-> q.query, start_ts |-> w.start_ts,
     end_ts |-> w.end_ts,
     namespace |-> IF scope = NAMESPACE_SCOPED THEN namespace ELSE "None"]

\* How a call of fetch_openshift_metrics ends: a frame with rows, an empty
\* frame, an exception.
FetchOutcomes == {"data", "empty", "raise"}

chat_payload(promql, summary) ==
    [metric_category |-> c_category, scope |-> c_scope,
     namespace |-> c_namespace, start_ts |-> c_window.start_ts,
     end_ts |-> c_window.end_ts, promql |-> promql, summary |-> summary]

NoDataSummary == "No metric data found for the selected category/scope in the time window."

\* `except Exception as e: return _resp(f"Error in chat_openshift: ...",
\* is_error=True)`: what the call yields once an exception reached the handler.
\* Variant: no handler, the exception leaves chat_openshift.
chat_failed_propagates ==
    Raised
chat_failed ==
    resp_text("Error in chat_openshift", TRUE)

\* chat_openshift from its entry to its first call of fetch_openshift_metrics.
chat_openshift(metric_category, scope, namespace, ti) ==
    LET msg == validate(scope, namespace)
        w == resolve_time_range(ti)
        sel == select_metrics(metric_category, scope, namespace)
        returns(r) == /\ c_response' = r
                      /\ c_pc' = "done"
                      /\ UNCHANGED <<c_metrics_to_fetch, c_fetch_log>>
    IN
    /\ c_pc = "idle"
    /\ c_category' = metric_category
    /\ c_scope' = scope
    /\ c_namespace' = namespace
    /\ c_time' = ti
    /\ c_window' = IF msg = "" /\ w.ok
                   THEN [start_ts |-> w.start_ts, end_ts |-> w.end_ts]
                   ELSE NoneV
    /\ IF msg # "" THEN returns(resp_text(msg, FALSE))
       ELSE IF ~w.ok THEN returns(chat_failed)
       ELSE IF ~sel.found THEN returns(resp_text("Invalid metric category", FALSE))
       ELSE /\ c_metrics_to_fetch' = sel.metrics_to_fetch
            /\ c_fetch_log' = <<FetchCall(sel.metrics_to_fetch[1], w, scope, namespace)>>
            /\ c_pc' = "fetch"
            /\ UNCHANGED c_response
    /\ UNCHANGED <<c_metric_dfs, c_llm_calls, c_llm_response>>
    /\ UNCHANGED <<a_pc, a_args, a_core_calls, a_response>>
    /\ UNCHANGED <<corrVars, llmVars, injVars, incVars, concVars>>

\* The try/except of the fetch loop: metric_dfs[label] is the frame the
\* fetch returned, or an empty frame when the fetch raised. `raised` is
\* history, the frame does not hold it.
\* Variant: a label whose fetch raised gets no entry.
keep_frame_skip_raised(dfs, label, outcome) ==
    IF outcome = "raise" THEN dfs
    ELSE Append(dfs, [label |-> label, empty |-> outcome # "data", raised |-> FALSE])
keep_frame(dfs, label, outcome) ==
    Append(dfs, [label |-> label, empty |-> outcome # "data",
                 raised |-> outcome = "raise"])

\* any(... not df.empty for df in metric_dfs.values())
\* Variant: any frame counts, empty or not.
has_any_data_any_frame(dfs) ==
    Len(dfs) > 0
has_any_data(dfs) ==
    \E i \in 1..Len(dfs) : ~dfs[i].empty

\* fetch_openshift_metrics returned or raised: the frame is kept (an
\* empty one after an exception), then the next label is fetched; after the
\* last label the no-data message is returned or summarize_with_llm is called.
chat_openshift_fetch_returns(outcome) ==
    LET k == Len(c_fetch_log)
        dfs == keep_frame(c_metric_dfs, c_metrics_to_fetch[k].label, outcome)
    IN
    /\ c_pc = "fetch"
    /\ c_metric_dfs' = dfs
    /\ IF k < Len(c_metrics_to_fetch)
       THEN /\ c_fetch_log' = Append(c_fetch_log,
                   FetchCall(c_metrics_to_fetch[k + 1], c_window, c_scope, c_namespace))
            /\ UNCHANGED <<c_pc, c_llm_calls, c_response>>
       ELSE IF ~has_any_data(dfs)
       THEN /\ c_response' = resp_payload(chat_payload(<<>>, NoDataSummary))
            /\ c_pc' = "done"
            /\ UNCHANGED <<c_fetch_log, c_llm_calls>>
       ELSE /\ c_llm_calls' = c_llm_calls + 1
            /\ c_pc' = "llm"
            /\ UNCHANGED <<c_fetch_log, c_response>>
    /\ UNCHANGED <<c_category, c_scope, c_namespace, c_time, c_window,
                   c_metrics_to_fetch, c_llm_response>>
    /\ UNCHANGED <<a_pc, a_args, a_core_calls, a_response>>
    /\ UNCHANGED <<corrVars, llmVars, injVars, incVars, concVars>>

\* summarize_with_llm returned llm_response: chat_openshift to its return.
chat_openshift_llm_returns(llm_response) ==
    /\ c_pc = "llm"
    /\ c_llm_response' = llm_response
    /\ LET x == extract_json(llm_response, c_namespace) IN
       c_response' = resp_payload(chat_payload(x.promql, x.summary))
    /\ c_pc' = "done"
    /\ UNCHANGED <<c_category, c_scope, c_namespace, c_time, c_window,
                   c_metrics_to_fetch, c_metric_dfs, c_fetch_log, c_llm_calls>>
    /\ UNCHANGED <<a_pc, a_args, a_core_calls, a_response>>
    /\ UNCHANGED <<corrVars, llmVars, injVars, incVars, concVars>>

\* summarize_with_llm raised: `except Exception as e` of chat_openshift.
chat_openshift_llm_raises ==
    /\ c_pc = "llm"
    /\ c_response' = chat_failed
    /\ c_pc' = "done"
    /\ UNCHANGED <<c_category, c_scope, c_namespace, c_time, c_window,
                   c_metrics_to_fetch, c_metric_dfs, c_fetch_log, c_llm_calls,
                   c_llm_response>>
    /\ UNCHANGED <<a_pc, a_args, a_core_calls, a_response>>
    /\ UNCHANGED <<corrVars, llmVars, injVars, incVars, concVars>>

\* analyze_openshift from its entry to its call of analyze_openshift_metrics,
\* which does the fetching and the LLM call.
analyze_openshift(metric_category, scope, namespace, ti) ==
    LET msg == validate(scope, namespace)
        w == resolve_time_range(ti)
    IN
    /\ a_pc = "idle"
    /\ a_args' = [metric_category |-> metric_category, scope |-> scope,
                  namespace |-> namespace, time |-> ti]
    /\ IF msg # ""
       THEN /\ a_response' = resp_text(msg, FALSE)
            /\ a_pc' = "done"
            /\ UNCHANGED a_core_calls
       ELSE IF ~w.ok
       THEN /\ a_response' = resp_text("Error running analyze_openshift", TRUE)
            /\ a_pc' = "done"
            /\ UNCHANGED a_core_calls
       ELSE /\ a_core_calls' = a_core_calls + 1
            /\ a_pc' = "core"
            /\ UNCHANGED a_response
    /\ UNCHANGED <<c_pc, c_category, c_scope, c_namespace, c_time, c_window,
                   c_metrics_to_fetch, c_metric_dfs, c_fetch_log, c_llm_calls,
                   c_llm_response, c_response>>
    /\ UNCHANGED <<corrVars, llmVars, injVars, incVars, concVars>>

\* analyze_openshift_metrics returned a result (its llm_summary is kept) or
\* raised.
analyze_openshift_returns(raised) ==
    /\ a_pc = "core"
    /\ a_response' = IF raised
                     THEN resp_text("Error running analyze_openshift", TRUE)
                     ELSE resp_text("OpenShift Analysis", FALSE)
    /\ a_pc' = "done"
    /\ UNCHANGED <<a_args, a_core_calls>>
    /\ UNCHANGED <<c_pc, c_category, c_scope, c_namespace, c_time, c_window,
                   c_metrics_to_fetch, c_metric_dfs, c_fetch_log, c_llm_calls,
                   c_llm_response, c_response>>
    /\ UNCHANGED <<corrVars, llmVars, injVars, incVars, concVars>>

\* The reply texts tried on the chat prompt.
Noise == UNION {[1..n -> {"w", "sp", "{", "}"}] : n \in 0..MaxNoise}
Object(ms) == <<"{">> \o ms \o <<"}">>
ChatCores ==
    { <<>>,
      Object(<<"P:up", ",", "S:ok">>),
      Object(<<"P:sel", ",", "S:ok">>),
      Object(<<"P:pad", ",", "S:ok">>),
      Object(<<"P:", ",", "S:ok">>),
      Object(<<"S:ok">>),
      Object(<<"P:up", ",", "S:">>),
      Object(<<"P:up", "S:ok">>),
      <<"{", "P:up", ",", "S:ok">> }
ChatTexts == {lead \o core \o trail : lead \in Noise, core \in ChatCores, trail \in Noise}

\* Reply parsing: one category, one window, every reply text.
ChatNext ==
    \/ \E sc \in Scopes, ns \in Namespaces :
          chat_openshift("Fleet Overview", sc, ns, Token("1h"))
    \/ \E o \in {"data", "raise"} : chat_openshift_fetch_returns(o)
    \/ \E t \in ChatTexts : chat_openshift_llm_returns(t)
    \/ chat_openshift_llm_raises

\* Both tools on every category, scope, namespace and time input; a few
\* reply texts.
ToolTexts ==
    {<<"w">>, Object(<<"P:up", ",", "S:ok">>), Object(<<"P:sel", ",", "S:ok">>),
     Object(<<"P:", ",", "S:ok">>)}
ToolsNext ==
    \/ \E cat \in Categories, sc \in Scopes, ns \in Namespaces, ti \in ChatTimes :
          chat_openshift(cat, sc, ns, ti)
    \/ \E o \in FetchOutcomes : chat_openshift_fetch_returns(o)
    \/ \E t \in ToolTexts : chat_openshift_llm_returns(t)
    \/ chat_openshift_llm_raises
    \/ \E cat \in Categories, sc \in Scopes, ns \in Namespaces, ti \in ChatTimes :
          analyze_openshift(cat, sc, ns, ti)
    \/ \E raised \in BOOLEAN : analyze_openshift_returns(raised)

\* ------------------------------------------- the namespace filter, alone
QueryTokens == {"up", "{", "}", "namespace", "=", "job=\"x\"", ", "}
Queries == UNION {[1..n -> QueryTokens] : n \in 0..MaxQueryLen}

InjIdle == i_q0 = <<>> /\ i_q = <<>> /\ i_ns = "" /\ i_n = 0
InjInit ==
    /\ i_q0 \in Queries /\ i_q = i_q0
    /\ i_ns \in Namespaces /\ i_n = 0

apply_inject_namespace ==
    /\ i_n < MaxApply
    /\ i_q' = inject_namespace(i_q, i_ns)
    /\ i_n' = i_n + 1
    /\ UNCHANGED <<i_q0, i_ns>>
    /\ UNCHANGED <<corrVars, llmVars, chatVars, incVars, concVars>>

\* ------------------- the correlation service: two requests on one object
Requests == {1, 2}

\* __init__: the three URLs, from the environment or the defaults.
service_init ==
    [korrel8r_url |-> "http://korrel8r:8080",
     prometheus_url |-> "http://prometheus:9090",
     tempo_url |-> "http://tempo:3200"]

IdleFrame ==
    [pc |-> "idle", metric_query |-> "", time_range |-> "", correlations |-> NoneV,
     metric_data |-> NoneV, i |-> 0, result |-> NoneV]

\* The locals of correlate_metric_to_traces at its await of _query_korrel8r.
m2t_frame(metric_query, tr) ==
    [IdleFrame EXCEPT !.pc = "graph", !.metric_query = metric_query,
                      !.time_range = tr]

\* Where a request's `traces` list lives: `traces = []` binds a local of the
\* request's own coroutine frame.
\* Variant: the list is an attribute of the service object (self.traces).
traces_cell_on_self(r) ==
    0
traces_cell(r) ==
    r

\* The for loop of a frame from iteration i with `traces` = ev: up to the next
\* await of _get_tempo_trace, or to the return.
m2t_frame_loop(f, i, ev) ==
    LET es == GetResults(f.correlations)
        j == NextTarget(es, i)
    IN  IF j > Len(es)
        THEN [f |-> [f EXCEPT !.pc = "done", !.i = j,
                       !.result = [metric_query |-> f.metric_query,
                                   metric_data |-> f.metric_data,
                                   correlations |-> f.correlations,
                                   related_traces |-> ev,
                                   analysis_timestamp |-> analysis_timestamp]],
              traces |-> ev]
        ELSE [f |-> [f EXCEPT !.pc = "fetch", !.i = j], traces |-> ev]

m2t_frame_failed(f, ev) ==
    [f |-> [f EXCEPT !.pc = "done", !.result = [error |-> "Correlation failed"]],
     traces |-> ev]

\* One resumption of correlate_metric_to_traces: the frame f, whose `traces`
\* list holds ev, gets resp from the await it is suspended at and runs to its
\* next await or to its return.
m2t_step(f, ev, resp) ==
    CASE f.pc = "graph" ->
            LET c == query_korrel8r(resp) IN
            IF c = Raised THEN m2t_frame_failed(f, ev)
            ELSE IF no_correlations(c)
            THEN [f |-> [f EXCEPT !.pc = "done", !.correlations = c,
                           !.result = [error |-> "No correlations found"]],
                  traces |-> ev]
            ELSE [f |-> [f EXCEPT !.pc = "primary", !.correlations = c],
                  traces |-> ev]
      [] f.pc = "primary" ->
            LET md == query_prometheus(resp) IN
            IF md = Raised THEN m2t_frame_failed(f, ev)
            ELSE m2t_frame_loop([f EXCEPT !.metric_data = md], 1, <<>>)
      [] f.pc = "fetch" ->
            LET trace_data == get_tempo_trace(resp) IN
            IF trace_data = Raised THEN m2t_frame_failed(f, ev)
            ELSE m2t_frame_loop(f, f.i + 1,
                                IF Truthy(trace_data)
                                THEN m2t_append(ev, f.i, trace_data)
                                ELSE ev)
      [] OTHER -> [f |-> f, traces |-> ev]

\* The responses the await a frame is suspended at can yield.
ConcGraphResponses ==
    {[kind |-> "status", body |-> NoneV]}
    \cup {Ok([json |-> "obj", hasResults |-> TRUE, results |-> es]) :
             es \in {<<>>, <<[rule |-> "r1", target |-> "a"]>>,
                      <<[rule |-> "r1", target |-> "b"], [rule |-> "r1", target |-> "a"]>>}}
ConcMetrics == {"cpu_usage_percent", "memory_usage_bytes"}
ConcResponses ==
    ConcGraphResponses \cup UNION {FetchResponses(x) : x \in ConcMetrics \cup Targets}
AwaitYields(f) ==
    CASE f.pc = "graph" -> ConcGraphResponses
      [] f.pc = "primary" -> FetchResponses(f.metric_query)
      [] f.pc = "fetch" -> FetchResponses(GetResults(f.correlations)[f.i].target)
      [] OTHER -> {}

ConcIdle ==
    /\ s_self = service_init
    /\ t_frame = [r \in Requests |-> IdleFrame]
    /\ t_traces = [c \in {0} \cup Requests |-> <<>>]
    /\ t_seen = [r \in Requests |-> <<>>]
    /\ t_peak = 0

\* Request r enters correlate_metric_to_traces and awaits _query_korrel8r.
conc_correlate_metric_to_traces(r, metric_query, tr) ==
    /\ t_frame[r].pc = "idle"
    /\ t_frame' = [t_frame EXCEPT ![r] = m2t_frame(metric_query, tr)]
    /\ t_peak' = Max(t_peak, Cardinality({x \in Requests : t_frame'[x].pc \notin {"idle", "done"}}))
    /\ UNCHANGED <<s_self, t_traces, t_seen>>
    /\ UNCHANGED <<corrVars, llmVars, chatVars, injVars, incVars>>

\* The event loop resumes request r with the response of its pending call.
conc_resume(r, resp) ==
    LET out == m2t_step(t_frame[r], t_traces[traces_cell(r)], resp) IN
    /\ t_frame[r].pc \in {"graph", "primary", "fetch"}
    /\ resp \in AwaitYields(t_frame[r])
    /\ t_frame' = [t_frame EXCEPT ![r] = out.f]
    /\ t_traces' = [t_traces EXCEPT ![traces_cell(r)] = out.traces]
    /\ t_seen' = [t_seen EXCEPT ![r] = Append(@, resp)]
    /\ UNCHANGED <<s_self, t_peak>>
    /\ UNCHANGED <<corrVars, llmVars, chatVars, injVars, incVars>>

ConcNext ==
    \/ \E r \in Requests, q \in ConcMetrics :
          conc_correlate_metric_to_traces(r, q, "1h")
    \/ \E r \in Requests, resp \in ConcResponses : conc_resume(r, resp)

\* ========================================================= specifications
\* The correlation service, one request.
Init == CorrInit /\ LLMInit /\ ChatInit /\ InjIdle /\ IncInit /\ ConcIdle
Next == CorrNext
Spec == Init /\ [][Next]_vars

\* The LLM client, one request.
SpecLLM == Init /\ [][LLMNext]_vars

\* chat_openshift, one call.
SpecChat == Init /\ [][ChatNext]_vars

\* One correlation request and one LLM request side by side, on short edge
\* lists and a few LLM replies.
GatewayEdgeLists == UNION {[1..n -> Edge] : n \in 0..(MaxEdges - 1)}
GatewayGraphResponses ==
    Failures \cup {Ok(EmptyJson)}
    \cup {Ok([json |-> "obj", hasResults |-> TRUE, results |-> es]) : es \in GatewayEdgeLists}
GatewayLLMResponses ==
    Failures \cup {Ok(Envelope("text", <<"{", "rc:disk", ",", "sev:high", "}">>)),
                   Ok(Envelope("text", <<"w">>))}
GatewayNext ==
    \/ \E q \in Metrics, tr \in TimeRanges : correlate_metric_to_traces(q, tr)
    \/ \E r \in GatewayGraphResponses : m2t_graph_returns(r)
    \/ \E q \in Metrics : \E r \in FetchResponses(q) : m2t_metric_returns(r)
    \/ \E t \in Targets : \E r \in FetchResponses(t) : m2t_trace_returns(r)
    \/ \E t \in TraceIds : correlate_trace_to_metrics(t)
    \/ \E r \in GatewayGraphResponses : t2m_graph_returns(r)
    \/ \E t \in TraceIds : \E r \in FetchResponses(t) : t2m_trace_returns(r)
    \/ \E t \in Targets : \E r \in FetchResponses(t) : t2m_metric_returns(r)
    \/ \E d \in Descriptions : analyze_correlations(<<MaxEdgeCount>>, d)
    \/ \E r \in GatewayLLMResponses : analyze_correlations_returns(r)
    \/ \E d \in Descriptions : generate_incident_insights(d)
    \/ \E r \in GatewayLLMResponses : generate_incident_insights_returns(r)
SpecGateways == Init /\ [][GatewayNext]_vars

\* Two correlate_metric_to_traces requests interleaved on one service object.
SpecConcurrent == Init /\ [][ConcNext]_vars

\* Every public operation, one call per behaviour (the operations share no
\* state), with every kind of backend outcome.  Each pending backend call
\* ends: the HTTP calls of the service carry timeout=30, the LLM call
\* timeout=self.timeout, and the event loop resumes a coroutine whose await
\* has completed.
LiveDescription == <<"High", Blank, "cpu", Blank, "and", Blank, "memory", Blank, "usage">>
LiveGraphResponses ==
    Failures \cup {Ok(EmptyJson),
                   Ok([json |-> "obj", hasResults |-> TRUE,
                       results |-> <<[rule |-> "r1", target |-> "a"]>>])}
NoCallYet ==
    /\ pc = "idle" /\ n_pc = "idle" /\ l_pc = "idle"
    /\ c_pc = "idle" /\ a_pc = "idle"

live_m2t == NoCallYet /\ \E q \in Metrics : correlate_metric_to_traces(q, "1h")
live_t2m == NoCallYet /\ \E t \in TraceIds : correlate_trace_to_metrics(t)
live_incident ==
    /\ NoCallYet
    /\ \E keywords \in Orders(extract_keywords(LiveDescription)) :
          analyze_incident(LiveDescription, "1h", keywords)
live_analyze_correlations ==
    NoCallYet /\ \E d \in Descriptions : analyze_correlations(<<1>>, d)
live_incident_insights ==
    NoCallYet /\ \E d \in Descriptions : generate_incident_insights(d)
live_chat ==
    /\ NoCallYet
    /\ \E cat \in DOMAIN get_openshift_metrics, sc \in Scopes, ns \in Namespaces :
          chat_openshift(cat, sc, ns, Token("1h"))
live_analyze_openshift ==
    /\ NoCallYet
    /\ \E cat \in DOMAIN get_openshift_metrics, sc \in Scopes, ns \in Namespaces :
          analyze_openshift(cat, sc, ns, Token("1h"))

LiveNext ==
    \/ live_m2t
    \/ \E r \in LiveGraphResponses : m2t_graph_returns(r)
    \/ \E q \in ProbeMetrics : \E r \in FetchResponses(q) : m2t_metric_returns(r)
    \/ \E t \in Targets : \E r \in FetchResponses(t) : m2t_trace_returns(r)
    \/ live_t2m
    \/ \E r \in LiveGraphResponses : t2m_graph_returns(r)
    \/ \E t \in TraceIds : \E r \in FetchResponses(t) : t2m_trace_returns(r)
    \/ \E t \in Targets : \E r \in FetchResponses(t) : t2m_metric_returns(r)
    \/ live_incident
    \/ incident_probe_returns
    \/ live_analyze_correlations
    \/ \E r \in GatewayLLMResponses : analyze_correlations_returns(r)
    \/ live_incident_insights
    \/ \E r \in GatewayLLMResponses : generate_incident_insights_returns(r)
    \/ live_chat
    \/ \E o \in FetchOutcomes : chat_openshift_fetch_returns(o)
    \/ \E t \in ToolTexts : chat_openshift_llm_returns(t)
    \/ chat_openshift_llm_raises
    \/ live_analyze_openshift
    \/ \E raised \in BOOLEAN : analyze_openshift_returns(raised)
SpecLive ==
    /\ Init /\ [][LiveNext]_vars
    /\ WF_vars(\E r \in LiveGraphResponses : m2t_graph_returns(r))
    /\ WF_vars(\E q \in ProbeMetrics : \E r \in FetchResponses(q) : m2t_metric_returns(r))
    /\ WF_vars(\E t \in Targets : \E r \in FetchResponses(t) : m2t_trace_returns(r))
    /\ WF_vars(\E r \in LiveGraphResponses : t2m_graph_returns(r))
    /\ WF_vars(\E t \in TraceIds : \E r \in FetchResponses(t) : t2m_trace_returns(r))
    /\ WF_vars(\E t \in Targets : \E r \in FetchResponses(t) : t2m_metric_returns(r))
    /\ WF_vars(incident_probe_returns)
    /\ WF_vars(\E r \in GatewayLLMResponses : analyze_correlations_returns(r))
    /\ WF_vars(\E r \in GatewayLLMResponses : generate_incident_insights_returns(r))
    /\ WF_vars(\E o \in FetchOutcomes : chat_openshift_fetch_returns(o))
    /\ WF_vars((\E t \in ToolTexts : chat_openshift_llm_returns(t))
               \/ chat_openshift_llm_raises)
    /\ WF_vars(\E raised \in BOOLEAN : analyze_openshift_returns(raised))

\* analyze_incident, one request.
SpecIncident == Init /\ [][IncidentNext]_vars

\* chat_openshift and analyze_openshift, one call of each.
SpecTools == Init /\ [][ToolsNext]_vars

\* The namespace filter applied up to MaxApply times to any query.
InitInject == CorrInit /\ LLMInit /\ ChatInit /\ InjInit /\ IncInit /\ ConcIdle
NextInject == apply_inject_namespace
SpecInject == InitInject /\ [][NextInject]_vars

\* ================================================================ claims
\* ----------------------------------------------- correlation requests
Returned == pc = "done"
IsError(r) == "error" \in DOMAIN r
Edges == GetResults(correlations)
\* The evidence list of the returned dict.
related(r) == IF op = "m2t" THEN r.related_traces ELSE r.related_metrics
\* The completed exchanges of the per-edge fetches.
EdgeLog == SelectSeq(log, LAMBDA l : l.edge > 0)
GraphFailed ==
    /\ Len(log) >= 1
    /\ log[1].backend = "korrel8r"
    /\ log[1].kind \in FailKinds

\* C1: in either correlation coroutine, once the graph call has failed
\* (transport error, timeout or non-200 status) the request has returned a
\* dict with an `error` field and no metrics or trace exchange was started.
C1_GraphFailureReturnsErrorWithoutFetch ==
    GraphFailed =>
        /\ Returned
        /\ IsError(result)
        /\ calls.prometheus = 0
        /\ calls.tempo = 0
        /\ calls.korrel8r = 1

C1_Witness ==
    /\ GraphFailed
    /\ log[1].kind = "timeout"
    /\ op = "t2m"
    /\ Returned

\* C2: when the graph call succeeded with N edges, the returned evidence list
\* has exactly N entries, one per edge.
C2_OneEntryPerEdge ==
    (Returned /\ ~IsError(result)) => Len(related(result)) = Len(Edges)

\* C3: a per-edge fetch that raised, timed out or answered non-200 does not
\* end the request: when the request has returned after a successful graph
\* call, every edge that names a target had its fetch completed exactly once,
\* the result is not an error, and its evidence list holds exactly the
\* entries of the fetches that answered 200 with data.
C3_FailedFetchDoesNotAbort ==
    (Returned /\ Truthy(correlations)) =>
        /\ ~IsError(result)
        /\ \A i \in 1..Len(Edges) :
              Edges[i].target # Absent =>
                  Cardinality({k \in 1..Len(EdgeLog) : EdgeLog[k].edge = i}) = 1
        /\ {related(result)[k].edge : k \in 1..Len(related(result))}
              = {EdgeLog[k].edge : k \in {n \in 1..Len(EdgeLog) : EdgeLog[n].data}}

C3_Witness ==
    /\ Returned
    /\ ~IsError(result)
    /\ Len(EdgeLog) = 3
    /\ EdgeLog[1].data
    /\ EdgeLog[2].kind = "timeout"
    /\ EdgeLog[3].data
    /\ Len(related(result)) = 2

\* C4: the evidence list is in graph-edge order: of two entries, the one of
\* the earlier edge comes first, at every point of the request and in the
\* returned dict.
C4_EvidenceInEdgeOrder ==
    /\ \A k, l \in 1..Len(evidence) :
          k < l => evidence[k].edge < evidence[l].edge
    /\ (Returned /\ ~IsError(result)) => related(result) = evidence

C4_Witness ==
    /\ Returned
    /\ ~IsError(result)
    /\ Len(related(result)) >= 2
    /\ related(result)[1].edge = 1
    /\ related(result)[2].edge = 3

\* C5: a request that fetched for two or more edges had, at some point, the
\* fetches of two edges in flight together.
C5_FetchesOverlap ==
    (Returned /\ Len(EdgeLog) >= 2) => peak >= 2

\* ----------------------------------------------------------- LLM client
LLMReturned == l_pc = "done"
LLMFailed == LLMReturned /\ l_reply.kind \in FailKinds

\* C6: for every failure of the LLM exchange (unreachable, timeout, non-200)
\* both entry points return a fallback analysis with root cause, impact,
\* recommendations and severity.
C6_LLMFailureYieldsFallback ==
    LLMFailed =>
        /\ "fallback_analysis" \in DOMAIN l_result
        /\ {"root_cause", "impact", "recommendations", "severity"}
              \subseteq DOMAIN l_result.fallback_analysis

\* No span of the text decodes as a JSON object.
Unparseable(text) ==
    \A i, j \in 1..Len(text) : ~json_loads(SubSeq(text, i, j)).ok

\* C7: for every reply text that holds no JSON object, what response parsing
\* hands back has structured = false, analysis equal to the reply text and an
\* error marker, and no exception left the parser.
C7_UnparseableReplyIsDegraded ==
    (/\ LLMReturned
     /\ l_reply.kind = "ok"
     /\ l_reply.body.choices = "text"
     /\ Unparseable(l_reply.body.text))
    =>
        /\ l_analysis # Raised
        /\ l_analysis.structured = FALSE
        /\ l_analysis.analysis = l_reply.body.text
        /\ "error" \in DOMAIN l_analysis

\* ------------------------------------------------------- chat_openshift
ChatReturnedPayload == c_pc = "done" /\ c_response.type = "payload"

\* C8: for a reply made of any leading text, the object
\* {"promql": "up", "summary": "ok"} and any trailing text, the payload
\* carries promql "up" and summary "ok" (no namespace given, so the promql is
\* the parsed one).
C8_ObjectBetweenNoiseIsExtracted ==
    (/\ ChatReturnedPayload
     /\ c_namespace = ""
     /\ \E lead, trail \in Noise :
           c_llm_response = lead \o Object(<<"P:up", ",", "S:ok">>) \o trail)
    =>
        /\ c_response.payload.promql = <<"up">>
        /\ c_response.payload.summary = <<"ok">>

\* ------------------------------------------------ the namespace filter
CountNamespaceLabels(q) ==
    Cardinality({k \in 1..(Len(q) - 1) : q[k] = "namespace" /\ q[k + 1] = "="})
Applies(q, ns) == q # <<>> /\ ns # "" /\ ~Contains(q, <<"namespace", "=">>)

\* C9: once the namespace filter has been applied to a query, applying it
\* again with the same namespace gives the same query, and the query never
\* holds a namespace constraint the filter added twice.
C9_InjectIdempotent ==
    i_n >= 1 =>
        /\ inject_namespace(i_q, i_ns) = i_q
        /\ CountNamespaceLabels(i_q) =
              IF Applies(i_q0, i_ns) THEN 1 ELSE CountNamespaceLabels(i_q0)

C9_Witness ==
    /\ i_n = 2
    /\ i_ns = "ns1"
    /\ i_q0 = <<"up", "{", "job=\"x\"", "}">>
    /\ i_q # i_q0
    /\ CountNamespaceLabels(i_q) = 1

\* C10: where the filter applies (a query, a namespace, no "namespace="
\* yet), one application of it puts the label by the query's shape: a query
\* with a selector block gets namespace="<ns>" right inside its first block,
\* all it held before kept in place and no block added; a query with no
\* block gets exactly one new block {namespace="<ns>"} at its end.
C10_InjectByShape ==
    (i_n = 1 /\ Applies(i_q0, i_ns)) =>
        LET label == <<"namespace", "=", Quote(i_ns)>>
            braces(q) == Cardinality({k \in 1..Len(q) : q[k] = "{"})
        IN  IF \E k \in 1..Len(i_q0) : i_q0[k] = "{"
            THEN /\ \E k \in 1..Len(i_q0) :
                      /\ i_q0[k] = "{"
                      /\ \A j \in 1..(k - 1) : i_q0[j] # "{"
                      /\ i_q = SubSeq(i_q0, 1, k) \o label \o <<", ">>
                                  \o SubSeq(i_q0, k + 1, Len(i_q0))
                 /\ braces(i_q) = braces(i_q0)
            ELSE i_q = i_q0 \o <<"{">> \o label \o <<"}">>

C10_Witness ==
    /\ i_n = 1
    /\ i_ns = "ns1"
    /\ i_q0 = <<"up", "{", "job=\"x\"", "}">>
    /\ i_q = <<"up", "{", "namespace", "=", "\"ns1\"", ", ", "job=\"x\"", "}">>

\* ------------------------------------------------ the OpenShift tools
ChatReturned == c_pc = "done"
\* The promql of the reply as parsed, before any namespace filter.
ParsedPromql(text) == extract_json(text, "").promql

\* C11: chat_openshift rewrites the parsed promql with a namespace label only
\* for a namespace_scoped request whose promql has no namespace= label; for a
\* cluster_wide request the returned promql is the parsed promql unchanged,
\* even if a namespace argument was supplied.
C11_ClusterWideKeepsPromql ==
    (ChatReturned /\ c_response.type = "payload") =>
        LET parsed == ParsedPromql(c_llm_response)
            returned == c_response.payload.promql
        IN  /\ c_scope = CLUSTER_WIDE => returned = parsed
            /\ returned # parsed =>
                  c_scope = NAMESPACE_SCOPED /\ ~Contains(parsed, <<"namespace", "=">>)

\* The categories registered in each catalog.
RegisteredClusterWide == DOMAIN get_openshift_metrics
RegisteredNamespace == {cat \in Categories : get_namespace_specific_metrics(cat) # <<>>}
ScopeValid(sc) == sc \in {CLUSTER_WIDE, NAMESPACE_SCOPED}
NamespaceMissing(sc, ns) == sc = NAMESPACE_SCOPED /\ ns = ""
UnknownCategory(cat, sc) ==
    \/ cat \notin RegisteredClusterWide \cup RegisteredNamespace
    \/ sc = CLUSTER_WIDE /\ cat \notin RegisteredClusterWide
TimeValid(ti) ==
    \/ ti.form = "token" /\ ti.time_range \in DurationTokens
    \/ ti.form = "epoch" /\ ti.start_ts <= ti.end_ts

\* C12: an invalid scope, a missing namespace for namespace_scoped and, in
\* chat_openshift, an unknown metric category are answered with the message
\* of the first failing validation, after zero metric fetches, zero LLM calls
\* and zero calls of analyze_openshift_metrics.
C12_ValidationBeforeNetwork ==
    /\ ChatReturned =>
          /\ ~ScopeValid(c_scope) =>
                /\ c_response = resp_text("Invalid scope. Use 'cluster_wide' or 'namespace_scoped'.", FALSE)
                /\ c_fetch_log = <<>> /\ c_llm_calls = 0
          /\ NamespaceMissing(c_scope, c_namespace) =>
                /\ c_response = resp_text("Namespace is required when scope is 'namespace_scoped'.", FALSE)
                /\ c_fetch_log = <<>> /\ c_llm_calls = 0
          /\ (ScopeValid(c_scope) /\ UnknownCategory(c_category, c_scope)) =>
                /\ c_response.type = "text"
                /\ (~NamespaceMissing(c_scope, c_namespace) /\ TimeValid(c_time)) =>
                       c_response = resp_text("Invalid metric category", FALSE)
                /\ c_fetch_log = <<>> /\ c_llm_calls = 0
    /\ a_pc # "idle" =>
          /\ ~ScopeValid(a_args.scope) =>
                /\ a_response = resp_text("Invalid scope. Use 'cluster_wide' or 'namespace_scoped'.", FALSE)
                /\ a_core_calls = 0
          /\ NamespaceMissing(a_args.scope, a_args.namespace) =>
                /\ a_response = resp_text("Namespace is required when scope is 'namespace_scoped'.", FALSE)
                /\ a_core_calls = 0

C12_Witness ==
    /\ ChatReturned /\ c_scope = NAMESPACE_SCOPED /\ c_namespace = "ns1"
    /\ c_category = "No Such Category" /\ TimeValid(c_time)
    /\ c_response = resp_text("Invalid metric category", FALSE)
    /\ c_fetch_log = <<>>
    /\ a_pc = "done" /\ a_args.scope = NAMESPACE_SCOPED /\ a_args.namespace = ""
    /\ a_core_calls = 0

\* C13: a namespace_scoped request for a category with a namespace-specific
\* entry uses that entry and not the cluster-wide one; without such an entry
\* it falls back to the cluster-wide entry; a category registered in neither,
\* or not registered cluster-wide for a cluster_wide request, is rejected as
\* an invalid category.
C13_QuerySetSelection ==
    (c_pc # "idle" /\ validate(c_scope, c_namespace) = "" /\ TimeValid(c_time)) =>
        /\ (c_scope = NAMESPACE_SCOPED /\ c_category \in RegisteredNamespace) =>
              /\ c_metrics_to_fetch = get_namespace_specific_metrics(c_category)
              /\ c_category \in RegisteredClusterWide =>
                    c_metrics_to_fetch # get_openshift_metrics[c_category]
        /\ (c_scope = NAMESPACE_SCOPED /\ c_category \notin RegisteredNamespace
              /\ c_category \in RegisteredClusterWide) =>
              c_metrics_to_fetch = get_openshift_metrics[c_category]
        /\ (c_scope = CLUSTER_WIDE /\ c_category \in RegisteredClusterWide) =>
              c_metrics_to_fetch = get_openshift_metrics[c_category]
        /\ UnknownCategory(c_category, c_scope) =>
              /\ c_pc = "done"
              /\ c_response = resp_text("Invalid metric category", FALSE)
              /\ c_metrics_to_fetch = <<>>

\* The end-to-end scenario: "Workloads & Pods", namespace_scoped, 1h.
C13_Witness ==
    /\ c_pc = "fetch" /\ c_scope = NAMESPACE_SCOPED /\ c_namespace = "ns1"
    /\ c_category = "Workloads & Pods" /\ c_time = Token("1h")
    /\ \E i \in 1..Len(c_metrics_to_fetch) : c_metrics_to_fetch[i].label = "Pods Running"
    /\ \A i \in 1..Len(c_metrics_to_fetch) : c_metrics_to_fetch[i].label # "Total Pods Running"

\* ---------------------------------------------------- analyze_incident
IncidentReturned == n_pc = "done"
HighCpuMemory ==
    <<"High", Blank, "cpu", Blank, "and", Blank, "memory", Blank, "usage">>
KeywordSet == {n_keywords[i] : i \in 1..Len(n_keywords)}

\* C14, as claimed: for "High cpu and memory usage" the extracted keywords
\* are exactly {cpu, memory}, without duplicates.
C14_ExampleKeywordsCpuMemory ==
    (n_pc # "idle" /\ n_description = HighCpuMemory) =>
        KeywordSet = {"cpu", "memory"} /\ Len(n_keywords) = 2

\* C14, amended: for "High cpu and memory usage" the extracted keywords are
\* exactly {high, cpu, memory}, in any order and without duplicates ("high"
\* is a word of the vocabulary).
C14_ExampleKeywordsWithHigh ==
    (n_pc # "idle" /\ n_description = HighCpuMemory) =>
        KeywordSet = {"high", "cpu", "memory"} /\ Len(n_keywords) = 3

C14_Witness ==
    /\ IncidentReturned /\ n_description = HighCpuMemory
    /\ n_keywords = <<"memory", "high", "cpu">>

ProbeKeyword(m) ==
    CASE m = "cpu_usage_percent" -> "cpu"
      [] m = "memory_usage_bytes" -> "memory"
      [] OTHER -> "latency"
ProbesOf(m) == Cardinality({i \in 1..Len(n_probes) : n_probes[i] = m})

\* C15: analyze_incident runs the metric-to-trace correlation exactly once
\* for each distinct extracted keyword among cpu, memory, latency and never
\* for another keyword, which is skipped without an error; "High cpu and
\* memory usage" triggers exactly two correlations.
C15_OneProbePerProbeKeyword ==
    /\ \A i \in 1..Len(n_probes) : n_probes[i] \in ProbeMetrics
    /\ \A m \in ProbeMetrics : ProbesOf(m) <= 1
    /\ IncidentReturned =>
          /\ "error" \notin DOMAIN n_result
          /\ \A m \in ProbeMetrics :
                ProbesOf(m) = IF ProbeKeyword(m) \in KeywordSet THEN 1 ELSE 0
          /\ n_description = HighCpuMemory => Len(n_probes) = 2

C15_Witness ==
    /\ IncidentReturned /\ n_description = HighCpuMemory
    /\ "high" \in KeywordSet
    /\ n_probes = <<"memory_usage_bytes", "cpu_usage_percent">>

\* The edge count of every collected probe result.
EdgeCounts ==
    [i \in 1..Len(n_correlations) |-> Len(GetResults(n_correlations[i].correlations))]
TotalCount == SumSeq(EdgeCounts)

\* C16: with T the sum of the edge counts of the collected probe results,
\* the severity is high if T > 10, medium if 5 < T <= 10 and low if T <= 5,
\* and _generate_insights and _fallback_analysis give the same severity.
C16_SeverityThresholds ==
    IncidentReturned =>
        LET T == TotalCount
            expected == CASE T > 10 -> "high"
                          [] T > 5 /\ T <= 10 -> "medium"
                          [] OTHER -> "low"
        IN  /\ n_result.ai_insights.severity = expected
            /\ fallback_analysis(EdgeCounts).severity = n_result.ai_insights.severity

C16_Witness ==
    /\ IncidentReturned /\ TotalCount = 10
    /\ n_result.ai_insights.severity = "medium"
    /\ Len(n_correlations) >= 2

\* ------------------------------------------------- windows and payloads
\* C17: for a valid relative-duration token the window of the metrics query
\* of correlate_metric_to_traces spans exactly the token's duration
\* (end - start, in seconds); its end is now.
C17_WindowSpansTokenDuration ==
    \A c \in inflight :
        (op = "m2t" /\ c.backend = "prometheus" /\ time_range \in DurationTokens) =>
            c.hours * 3600 = duration_seconds(time_range)

\* C18: every dict a correlation coroutine returns, error results included,
\* has an analysis_timestamp field.
C18_TimestampInEveryResult ==
    Returned => "analysis_timestamp" \in DOMAIN result

\* ------------------------------------------------------------ gateways
Attempts(b, e) ==
    Cardinality({i \in 1..Len(log) : log[i].backend = b /\ log[i].edge = e})
    + Cardinality({c \in inflight : c.backend = b /\ c.edge = e})
Backends == {"korrel8r", "prometheus", "tempo"}

\* C19: every logical request to a backend (the graph query, the request's
\* own signal, the fetch of one edge, one LLM query) is attempted at most
\* once, also after a failure, and every attempt is one such request; the
\* graph backend is contacted at most once in a correlation request.
C19_AtMostOneAttempt ==
    /\ calls.korrel8r <= 1
    /\ \A b \in Backends : \A e \in 0..Len(Edges) : Attempts(b, e) <= 1
    /\ \A b \in Backends :
          calls[b] = Cardinality({i \in 1..Len(log) : log[i].backend = b})
                     + Cardinality({c \in inflight : c.backend = b})
    /\ \A i \in 1..Len(log) : log[i].edge <= Len(Edges)
    /\ l_calls <= 1
    /\ LLMReturned => l_calls = 1

C19_Witness ==
    /\ Returned /\ op = "m2t" /\ Len(Edges) = 2
    /\ \E i \in 1..Len(log) :
          log[i].backend = "tempo" /\ log[i].edge = 1 /\ log[i].kind = "timeout"
    /\ calls.tempo = 2
    /\ LLMFailed /\ l_calls = 1

\* ------------------------------------------------- the request's phases
\* The phase a correlation request is in: Idle before the graph query is
\* posted, GraphQueried while it is awaited, SignalsFetched while the
\* request's signals are fetched, Aggregated or Errored once it returned.
Phase ==
    CASE pc = "idle" -> "Idle"
      [] pc = "graph" -> "GraphQueried"
      [] pc \in {"primary", "fetch"} -> "SignalsFetched"
      [] pc = "done" /\ IsError(result) -> "Errored"
      [] OTHER -> "Aggregated"
PhaseStep(p, q) ==
    \/ p = q /\ p = "SignalsFetched"
    \/ p = "Idle" /\ q = "GraphQueried"
    \/ p = "GraphQueried" /\ q \in {"SignalsFetched", "Errored"}
    \/ p = "SignalsFetched" /\ q = "Aggregated"

\* C20: a correlation request goes through Idle, GraphQueried,
\* SignalsFetched, Aggregated in that order, no phase skipped or entered
\* again; Aggregated and Errored are never left; Errored is entered only
\* when the graph query itself failed.
C20_PhasesInOrder ==
    /\ [][PhaseStep(Phase, Phase')]_corrVars
    /\ [](Phase = "Errored" => GraphFailed)

\* The part of C20 that holds whatever the graph backend answers: the
\* order of the phases, and no error result after a failed per-edge fetch.
C20_PhaseOrderOnly == [][PhaseStep(Phase, Phase')]_corrVars

\* ------------------------------------------------ incident and the LLM
\* C21: analyze_incident hands the collected probe results and the
\* description to the LLM on every request; the rule-based insights are what
\* the caller gets only when that LLM call has failed.
C21_IncidentHandsToLLM ==
    IncidentReturned =>
        /\ l_calls >= 1
        /\ n_result.ai_insights = generate_insights(n_description, n_correlations)
              => LLMFailed

\* --------------------------------------------------- edges of the graph
GraphAnswered200 ==
    /\ Len(log) >= 1
    /\ log[1].backend = "korrel8r"
    /\ log[1].kind = "ok"

\* C22: a 200 answer of the graph backend that carries no edges (an empty
\* `results` array, or an empty body) is a success: the request returns a
\* non-error result with an empty evidence list and the correlation result
\* as received.
C22_ZeroEdgesIsSuccess ==
    (Returned /\ GraphAnswered200 /\ Edges = <<>>) =>
        /\ ~IsError(result)
        /\ related(result) = <<>>
        /\ result.correlations = correlations

\* The distinct (rule, target) pairs among the edges that name a target.
DistinctEdges ==
    {<<Edges[i].rule, Edges[i].target>> : i \in {j \in 1..Len(Edges) : Edges[j].target # Absent}}

\* C23: the edges are a set deduplicated by (rule, target): a (rule, target)
\* listed more than once is fetched once and gives at most one evidence
\* entry.
C23_EdgesDeduplicated ==
    (Returned /\ ~IsError(result)) =>
        /\ Len(EdgeLog) = Cardinality(DistinctEdges)
        /\ Len(related(result)) <= Cardinality(DistinctEdges)

\* The edges whose fetch brought data, in the order the fetches completed.
EdgesWithData ==
    LET withData == SelectSeq(EdgeLog, LAMBDA l : l.data)
    IN  [i \in 1..Len(withData) |-> withData[i].edge]
StartKind == IF op = "m2t" THEN "metric" ELSE "trace"
GoalBackend == IF op = "m2t" THEN "tempo" ELSE "prometheus"
ClassKind(class) == IF class = "metric:prometheus" THEN "metric" ELSE "trace"
QueryKind(q) == IF Head(q) = "metric:" THEN "metric" ELSE "trace"

\* C24: both directions post one graph query whose start class and query
\* are of the start signal's kind, fetch every edge that names a target from
\* the goal backend (traces for a metric start, metrics for a trace start),
\* and return the evidence of the fetches that brought data, in edge order.
C24_DirectionsSymmetric ==
    /\ pc # "idle" =>
          /\ ClassKind(graph_request.class) = StartKind
          /\ QueryKind(graph_request.queries[1]) = StartKind
          /\ graph_request.goals = <<IF op = "m2t" THEN "trace" ELSE "metric">>
    /\ \A i \in 1..Len(EdgeLog) : EdgeLog[i].backend = GoalBackend
    /\ (Returned /\ ~IsError(result)) =>
          /\ [i \in 1..Len(related(result)) |-> related(result)[i].edge] = EdgesWithData
          /\ Len(EdgeLog) = Cardinality({j \in 1..Len(Edges) : Edges[j].target # Absent})

\* ------------------------------------------------------ reply parsing
\* The index of the brace that closes the one open at depth d, looking from
\* i on; 0 when there is none.
RECURSIVE CloseOf(_, _, _)
CloseOf(text, i, d) ==
    IF i > Len(text) THEN 0
    ELSE IF text[i] = "{" THEN CloseOf(text, i + 1, d + 1)
    ELSE IF text[i] = "}" THEN (IF d = 1 THEN i ELSE CloseOf(text, i + 1, d - 1))
    ELSE CloseOf(text, i + 1, d)
\* The first balanced {...} span of a text, <<>> when it has none.
FirstBalancedSpan(text) ==
    LET opens == {i \in 1..Len(text) : text[i] = "{"}
        first == CHOOSE i \in opens : \A j \in opens : i <= j
        close == CloseOf(text, first + 1, 1)
    IN  IF opens = {} \/ close = 0 THEN <<>> ELSE SubSeq(text, first, close)

\* C25: when the first balanced {...} span of the reply is a valid JSON
\* object, that object is the one parsed, whatever follows it (a further
\* closing brace, a second object): the payload carries its promql and its
\* summary (the object has a promql; no namespace given, so the promql is
\* the parsed one).
C25_FirstBalancedSpanParsed ==
    LET span == FirstBalancedSpan(c_llm_response)
        first == json_loads(span)
        p == dict_get(first.obj, "promql", <<>>)
        sm == dict_get(first.obj, "summary", <<>>)
    IN  (ChatReturnedPayload /\ c_namespace = "" /\ first.ok /\ strip(p) # <<>>) =>
            /\ c_response.payload.promql = strip(p)
            /\ c_response.payload.summary = strip(IF sm # <<>> THEN sm ELSE c_llm_response)

SeverityEnum == {"low", "medium", "high", "critical"}

\* C26: the severity of every result LLMClient returns is one of low, medium,
\* high, critical, whatever the LLM replied.
C26_SeverityInEnum ==
    LLMReturned =>
        /\ "severity" \in DOMAIN l_result => l_result.severity \in SeverityEnum
        /\ "fallback_analysis" \in DOMAIN l_result =>
              l_result.fallback_analysis.severity \in SeverityEnum

\* ---------------------------------------------- chat_openshift's fetch loop
FetchLoopDone == c_pc \in {"llm", "done"} /\ c_metrics_to_fetch # <<>>
FetchedLabels == [i \in 1..Len(c_fetch_log) |-> c_fetch_log[i].label]
FrameLabels == [i \in 1..Len(c_metric_dfs) |-> c_metric_dfs[i].label]
SelectedLabels == [i \in 1..Len(c_metrics_to_fetch) |-> c_metrics_to_fetch[i].label]

\* C28: chat_openshift makes exactly one fetch for each label of the selected
\* query set, and after the loop the evidence mapping has an entry for every
\* label; a label whose fetch raised is present with an empty frame, and the
\* labels after it are still fetched.
C28_OneFetchAndOneFramePerLabel ==
    /\ c_pc = "fetch" =>
          /\ Len(c_fetch_log) = Len(c_metric_dfs) + 1
          /\ FetchedLabels = SubSeq(SelectedLabels, 1, Len(c_fetch_log))
          /\ FrameLabels = SubSeq(SelectedLabels, 1, Len(c_metric_dfs))
    /\ FetchLoopDone =>
          /\ FetchedLabels = SelectedLabels
          /\ FrameLabels = SelectedLabels
    /\ \A i \in 1..Len(c_metric_dfs) : c_metric_dfs[i].raised => c_metric_dfs[i].empty
C28_Witness ==
    /\ FetchLoopDone
    /\ Len(c_metrics_to_fetch) = 2
    /\ c_metric_dfs[1].raised
    /\ ~c_metric_dfs[2].empty

AllFramesEmpty == \A i \in 1..Len(c_metric_dfs) : c_metric_dfs[i].empty

\* C29: when every fetched frame is empty, chat_openshift never calls the
\* LLM: it returns a payload with promql "" and the fixed "No metric data
\* found" summary, together with the resolved start_ts and end_ts.
C29_NoDataSkipsLLM ==
    (FetchLoopDone /\ AllFramesEmpty) =>
        /\ c_llm_calls = 0
        /\ c_pc = "done"
        /\ c_response.type = "payload" /\ ~c_response.is_error
        /\ c_response.payload.promql = <<>>
        /\ c_response.payload.summary = NoDataSummary
        /\ c_response.payload.start_ts = resolve_time_range(c_time).start_ts
        /\ c_response.payload.end_ts = resolve_time_range(c_time).end_ts
C29_Witness ==
    /\ FetchLoopDone /\ AllFramesEmpty
    /\ Len(c_metric_dfs) = 2
    /\ c_metric_dfs[1].raised /\ ~c_metric_dfs[2].raised
    /\ c_time # Token("1h")

\* ------------------------------------------------ two concurrent requests
\* A request run alone: its frame resumed with each response of seen in turn.
RECURSIVE RunAloneFrom(_, _, _)
RunAloneFrom(st, seen, k) ==
    IF k > Len(seen) THEN st
    ELSE RunAloneFrom(m2t_step(st.f, st.traces, seen[k]), seen, k + 1)
RunAlone(metric_query, tr, seen) ==
    RunAloneFrom([f |-> m2t_frame(metric_query, tr), traces |-> <<>>], seen, 1)
StepOf(r) == t_frame'[r] # t_frame[r]
Other(r) == 3 - r

\* C27: two requests running concurrently on one service object are
\* independent: under every interleaving of their backend calls each request
\* is where it would be (and returns what it would return) running alone
\* against the same responses, and a step of one request leaves the other's
\* locals, the other's traces list and the service object untouched.
C27_ConcurrentRequestsIndependent ==
    /\ [](\A r \in Requests :
            t_frame[r].pc # "idle" =>
               LET alone == RunAlone(t_frame[r].metric_query, t_frame[r].time_range,
                                     t_seen[r])
               IN  /\ t_frame[r] = alone.f
                   /\ t_frame[r].pc = "fetch" => t_traces[r] = alone.traces)
    /\ [][\A r \in Requests :
            StepOf(r) => /\ t_frame'[Other(r)] = t_frame[Other(r)]
                         /\ t_traces'[Other(r)] = t_traces[Other(r)]
                         /\ t_traces'[0] = t_traces[0]
                         /\ s_self' = s_self]_vars
C27_Witness ==
    /\ t_peak = 2
    /\ \A r \in Requests :
          /\ t_frame[r].pc = "done"
          /\ "related_traces" \in DOMAIN t_frame[r].result
          /\ Len(t_frame[r].result.related_traces) >= 1
    /\ t_frame[1].result.related_traces # t_frame[2].result.related_traces

\* ------------------------------------------------------------ termination
IsValue(v) == v # NoneV /\ v # Raised

\* C30: every public operation that was called reaches its return, whatever
\* the backends answer (data, nothing, a status other than 200, an exception,
\* a timeout), and what it returns is a value: no exception leaves it.
C30_EveryOperationReturns ==
    /\ (op = "m2t") ~> (pc = "done" /\ IsValue(result))
    /\ (op = "t2m") ~> (pc = "done" /\ IsValue(result))
    /\ (n_pc # "idle") ~> (n_pc = "done" /\ IsValue(n_result))
    /\ (l_pc # "idle") ~> (l_pc = "done" /\ IsValue(l_result))
    /\ (c_pc # "idle") ~> (c_pc = "done" /\ IsValue(c_response))
    /\ (a_pc # "idle") ~> (a_pc = "done" /\ IsValue(a_response))
    /\ [](/\ result # Raised /\ n_result # Raised /\ l_result # Raised
          /\ c_response # Raised /\ a_response # Raised)
C30_Witness ==
    /\ n_pc = "done" /\ IsValue(n_result)
    /\ Len(n_probes) = 2 /\ n_correlations = <<>>
    /\ \E i \in 1..Len(log) : log[i].kind = "timeout"
====
